---- MODULE Spec2Model ----
(***************************************************************************)
(* Lua <-> V8 bridge (lv8): the cross-runtime object bridge.               *)
(*                                                                         *)
(* The repository holds three snapshots of the bridge that the statements  *)
(* checked here refer to: src/lv8.cpp, src/unnamed/part_002 and            *)
(* src/unnamed/part_001 (the latest one, with typed wrapper records and    *)
(* the INVARIANT #1..#4 comments).  The variable `build` says which of     *)
(* them the run is executing; it is chosen once and never changes.  Every  *)
(* handler below is translated from each snapshot and dispatches on        *)
(* `build`.                                                                *)
(*                                                                         *)
(* Host = Lua, guest = V8.  The Lua collector and the V8 collector are the *)
(* environment: they run a finalizer / weak callback only for an object    *)
(* that is unreachable on their side.                                      *)
(***************************************************************************)
EXTENDS Integers, Sequences, FiniteSets, TLC

\* ------------------------------------------------------------- bounds
MaxHost == 1
MaxGuest == 1
MaxRec == 3

\* ------------------------------------------------- program constants
LV8_OBJ_LUA == 0
LV8_OBJ_JS == 1
LV8_OBJ_CTX == 2
LV8_OBJ_SB == 3

Builds == {"lv8.cpp", "part_002", "part_001"}
\* src/lv8.cpp compiled with the identity cache off (the #else branch of
\* LV8_CACHE_PERSISTENT).
NoCacheBuild == "lv8.cpp -DLV8_CACHE_PERSISTENT=0"

Recs == 1..MaxRec

\* ------------------------------------------------------------- values
\* Host (Lua) values.
NIL == <<"nil", 0>>
LTRUE == <<"true", 0>>
Tab(i) == <<"tab", i>>
Ud(r) == <<"ud", r>>
Light(r) == <<"light", r>>
STR == <<"str", 0>>
\* Guest (V8) values.
UNDEF == <<"undefined", 0>>
JSTR == <<"jsstr", 0>>
EMPTY == <<"empty", 0>>
Js(g) == <<"js", g>>
Proxy(r) == <<"proxy", r>>
Gl(r) == <<"gl", r>>

\* Primitive values.  A host number is an integer or a float (sub); a host
\* string is a sequence of bytes, a guest string a sequence of code points.
MaxStr == 2
HBool(t) == <<"boolean", t>>
HNum(n, sub) == <<"number", n, sub>>
HStr(s) == <<"string", s>>
NULLV == <<"null", 0>>
JBool(t) == <<"jboolean", t>>
JBoolObj(t) == <<"jbooleanobject", t>>
JNum(n) == <<"jnumber", n>>
JNumObj(n) == <<"jnumberobject", n>>
JString(u) == <<"jstring", u>>
JStringObj(u) == <<"jstringobject", u>>

\* Bytes: 'A', the two bytes of U+00E9, and 0xFF, which no UTF-8 text holds.
Bytes == {65, 195, 169}
SeqsUpTo(S, n) == UNION {[1..m -> S] : m \in 0..n}
Nums == -1..2
HostPrims == {NIL} \cup {HBool(t) : t \in {0, 1}}
               \cup {HNum(n, sub) : n \in Nums, sub \in {"integer", "float"}}
               \cup {HStr(s) : s \in SeqsUpTo(Bytes, MaxStr)}

\* The keys of the host table and the property names of a guest global.
HKeys == {HStr(<<65>>), HStr(<<49>>), HNum(1, "integer")}
GProps == {JString(<<65>>), JString(<<49>>)}

\* The outcome of a crossing: the operation, its arguments, what the callee
\* received, the results the caller got, the set of keys an enumeration
\* produced, the guest exception left pending and the host error raised.
NoOut == [op |-> "none", arg |-> <<>>, got |-> <<>>, res |-> <<>>, keys |-> {},
          thrown |-> EMPTY, err |-> NIL]

Tabs == {Tab(i) : i \in 1..MaxHost}
Uds == {Ud(r) : r \in Recs}
Lights == {Light(r) : r \in Recs}
Keys == Tabs \cup Uds \cup Lights
HostObjs == Tabs \cup Uds
GuestPlain == {Js(g) : g \in 1..MaxGuest}
GuestProx == {Proxy(r) : r \in Recs} \cup {Gl(r) : r \in Recs}

VARIABLES build, reftab, rec, hidden, hostRefs, guestRefs, abort, last,
          entered, frames, done, fatal,
          tab, native, glob, raises, out

\* The V8 scope state: the stack of entered contexts, the bridge calls in
\* progress, the last finished host-facing operation, a fatal V8 error.
svars == <<entered, frames, done, fatal>>
\* The data seen through the bridge: the contents of the host table a
\* sandbox was created over, the guest's own storage of that sandbox's
\* global, the global of a created context, the error the host table's
\* metamethods raise, and the outcome of the last crossing.
dvars == <<tab, native, glob, raises, out>>
vars == <<build, reftab, rec, hidden, hostRefs, guestRefs, abort, last, svars, dvars>>

\* ------------------------------------------------- wrapper records
\* One lv8_object / lv8_context.  `st` is the state of the record's memory;
\* `object` and `context` are the V8 persistent handles it holds (they are
\* nodes owned by V8 and outlive the memory that points to them); `tgt` is
\* the plain guest object a guest-object wrapper anchors; `ud` is the Lua
\* collector's view of a record that is a Lua userdata ("none": the record
\* is not a userdata) and `pud` its entry in the pudata registry.  `host` is
\* bookkeeping of the model only: the host value a proxy or sandbox was
\* created over.
NoRec == [st |-> "unalloc", type |-> LV8_OBJ_LUA, object |-> "empty", tgt |-> 0, host |-> NIL,
          context |-> "empty", jscollected |-> 0, resurrected |-> 0,
          ud |-> "none", pud |-> FALSE]

\* The outcomes of an access whose behaviour the language leaves undefined
\* (a read through a freed record, a read past the end of an lv8_object).
UBOutcomes == {"zero", "collected", "resurrected"}

\* ----------------------------------------------------- bridge state
\* The state a handler works on: the variables it can change plus the host
\* stack of the running C function and the outcome `ub` of undefined reads.
Cur(stack, ub) == [build |-> build, reftab |-> reftab, rec |-> rec, hidden |-> hidden,
                   abort |-> abort, stack |-> stack, ub |-> ub]

Ok(b) == b.abort = ""
Fail(b, why) == IF Ok(b) THEN [b EXCEPT !.abort = why] ELSE b

\* ------------------------------------------------------- Lua C API
Top(b) == IF Len(b.stack) = 0 THEN NIL ELSE b.stack[Len(b.stack)]
lua_push(b, v) == IF Ok(b) THEN [b EXCEPT !.stack = Append(@, v)] ELSE b
lua_pop(b, n) ==
  IF ~Ok(b) THEN b
  ELSE IF Len(b.stack) < n THEN Fail(b, "stack underflow")
  ELSE [b EXCEPT !.stack = SubSeq(@, 1, Len(@) - n)]
lua_touserdata(v) == IF v[1] \in {"ud", "light"} THEN v[2] ELSE 0
\* t[k] = v with v on top and k below it; pops both.
lua_rawset(b) ==
  IF ~Ok(b) THEN b
  ELSE IF Len(b.stack) < 2 THEN Fail(b, "stack underflow")
  ELSE LET k == b.stack[Len(b.stack) - 1]
           v == b.stack[Len(b.stack)]
       IN IF k \notin Keys THEN Fail(b, "lua error: bad table index")
          ELSE lua_pop([b EXCEPT !.reftab[k] = v], 2)
\* pushes t[k] for the k on top, replacing it.
lua_rawget(b) ==
  IF ~Ok(b) THEN b
  ELSE LET k == Top(b)
       IN lua_push(lua_pop(b, 1), IF k \in Keys THEN b.reftab[k] ELSE NIL)

\* ----------------------------------------------------------- pudata
lua_pushuserdata_portable(b, r) ==
  lua_push(b, IF r \in Recs /\ b.rec[r].pud THEN Ud(r) ELSE NIL)

\* A record read through a pointer: a freed record is an undefined read.
Deref(b, r) == IF b.rec[r].st = "freed" /\ b.ub # "zero" THEN Fail(b, "use after free") ELSE b

\* -------------------------------------------------- Reference Table
\* Find the wrapper record associated with host value v (0: none).
persistent_lookup_lua(b, v) == lua_touserdata(b.reftab[v])

\* Push the host value associated with record r (nil: none).
persistent_lookup_js(b, r) == lua_rawget(lua_push(b, Light(r)))

\* Associate record r with host value v, both ways.
persistent_add(b, v, r) ==
  IF ~Ok(b) THEN b
  ELSE IF persistent_lookup_lua(b, v) # 0 THEN Fail(b, "assert: persistent_add on a mapped key")
  ELSE lua_rawset(lua_push(lua_push(
         lua_rawset(lua_push(lua_push(b, v), Light(r))),
         Light(r)), v))

\* Kill the mapping of record r; expects the host value on the stack, pops it.
persistent_del(b, r) ==
  IF ~Ok(b) THEN b
  ELSE IF Top(b) = NIL THEN Fail(b, "assert: persistent_del of nil")
  ELSE lua_rawset(lua_push(lua_push(
         lua_rawset(lua_push(b, NIL)),
         Light(r)), NIL))

\* src/lv8.cpp and part_002: the value on the stack must be the record's
\* own userdata.
persistent_del_lv8cpp(b, r) ==
  IF ~Ok(b) THEN b
  ELSE IF Top(b) = NIL THEN Fail(b, "assert: persistent_del of nil")
  ELSE IF lua_touserdata(Top(b)) # r THEN Fail(b, "assert: persistent_del of a foreign value")
  ELSE lua_rawset(lua_push(lua_push(
         lua_rawset(lua_push(b, NIL)),
         Light(r)), NIL))

\* ------------------------------------------------ remote finalizers
\* The context made weak by the local finalizer is collected.
js_weak_context(b, c) ==
  LET d == Deref(b, c)
  IN IF ~Ok(d) THEN d
     ELSE [d EXCEPT !.rec[c].context = "empty", !.rec[c].object = "empty",
                    !.rec[c].jscollected = 1]

\* The last guest reference to the object behind record r died.
js_weak_object(b, r) ==
  LET b1 == persistent_lookup_js(b, r)
      b2 == IF Ok(b1) /\ Top(b1) = NIL THEN Fail(b1, "assert: must be tracked") ELSE b1
      b3 == Deref(persistent_del(b2, r), r)
  IN IF ~Ok(b3) THEN b3
     ELSE IF b3.rec[r].type = LV8_OBJ_LUA
          THEN IF b3.rec[r].st = "freed" THEN Fail(b3, "double free")
               ELSE [b3 EXCEPT !.rec[r].object = "empty", !.rec[r].st = "freed"]
          ELSE [b3 EXCEPT !.rec[r].object = "empty"]

js_weak_object_lv8cpp(b, r) ==
  LET b1 == persistent_lookup_js(b, r)
      b2 == IF Ok(b1) /\ Top(b1) = NIL THEN Fail(b1, "assert: must be tracked") ELSE b1
      b3 == Deref(persistent_del_lv8cpp(b2, r), r)
  IN IF ~Ok(b3) THEN b3 ELSE [b3 EXCEPT !.rec[r].object = "empty"]

\* ------------------------------------------------------ allocation
\* The next unused record (0: the model's pool is exhausted; the actions
\* are guarded so that a handler never runs out).
FreeRec(b) == IF \E r \in Recs : b.rec[r].st = "unalloc"
              THEN CHOOSE r \in Recs : b.rec[r].st = "unalloc" /\
                                       \A q \in Recs : b.rec[q].st = "unalloc" => r <= q
              ELSE 0
NumFree(b) == Cardinality({r \in Recs : b.rec[r].st = "unalloc"})

\* lua_newuserdata through the pudata wrapper: a userdata for record r,
\* registered in the pudata registry, pushed on the stack.
lua_newuserdata_wrapper(b, r, type) ==
  lua_push([b EXCEPT !.rec[r] = [NoRec EXCEPT !.st = "live", !.type = type,
                                               !.ud = "live", !.pud = TRUE]], Ud(r))

\* Re-register a userdata under finalization in the pudata registry (the
\* registration step of lua_newuserdata_wrapper, repeated by the finalizer).
\* The pudata.h that defines it is not among the sources; with a native
\* lua_pushuserdata it is a no-op and the push needs no registry.
lua_pushuserdata_resurrect(b, r) == [b EXCEPT !.rec[r].pud = TRUE]

\* Make the userdata finalizable again (FINALIZED bit cleared, metatable reset).
restart_finalizer(b, r) == [b EXCEPT !.rec[r].ud = "live"]

\* -------------------------------------------------- local finalizer
\* A faulty variant of lua_obj_gc that resurrects the context and then
\* still drops its object handle; C6 must tell it from the code.
lua_obj_gc_resets(b, o) ==
  IF ~Ok(b) THEN b
  ELSE IF b.rec[o].type \in {LV8_OBJ_SB, LV8_OBJ_CTX} /\
          b.rec[o].jscollected = 0 /\ b.rec[o].resurrected = 0
  THEN LET b1 == lua_pushuserdata_resurrect(restart_finalizer(b, o), o)
           b2 == [b1 EXCEPT !.rec[o].context = "weak"]
           b3 == lua_rawset(lua_push(lua_push(b2, Ud(o)), LTRUE))
       IN IF Ok(b3) THEN [b3 EXCEPT !.rec[o].resurrected = 1, !.rec[o].object = "empty"]
          ELSE b3
  ELSE IF b.rec[o].type \in {LV8_OBJ_SB, LV8_OBJ_CTX}
  THEN [b EXCEPT !.rec[o].object = "empty"]
  ELSE IF b.rec[o].type # LV8_OBJ_JS THEN Fail(b, "assert: type is LV8_OBJ_JS")
  ELSE IF b.rec[o].object = "empty" THEN Fail(b, "empty handle dereferenced")
  ELSE [b EXCEPT !.hidden[b.rec[o].tgt] = 0, !.rec[o].object = "empty"]

\* A faulty variant of lua_obj_gc that arms the weak registration without
\* recording that the context is pending; C7 must tell it from the code.
lua_obj_gc_unflagged(b, o) ==
  IF ~Ok(b) THEN b
  ELSE IF b.rec[o].type \in {LV8_OBJ_SB, LV8_OBJ_CTX} /\
          b.rec[o].jscollected = 0 /\ b.rec[o].resurrected = 0
  THEN LET b1 == lua_pushuserdata_resurrect(restart_finalizer(b, o), o)
           b2 == [b1 EXCEPT !.rec[o].context = "weak"]
       IN lua_rawset(lua_push(lua_push(b2, Ud(o)), LTRUE))
  ELSE IF b.rec[o].type \in {LV8_OBJ_SB, LV8_OBJ_CTX}
  THEN [b EXCEPT !.rec[o].object = "empty"]
  ELSE IF b.rec[o].type # LV8_OBJ_JS THEN Fail(b, "assert: type is LV8_OBJ_JS")
  ELSE IF b.rec[o].object = "empty" THEN Fail(b, "empty handle dereferenced")
  ELSE [b EXCEPT !.hidden[b.rec[o].tgt] = 0, !.rec[o].object = "empty"]

\* A faulty variant of lua_obj_gc that releases the anchor of a guest
\* object and leaves its identity tag; C17 must tell it from the code.
lua_obj_gc_keepstag(b, o) ==
  IF ~Ok(b) THEN b
  ELSE IF b.rec[o].type \in {LV8_OBJ_SB, LV8_OBJ_CTX} /\
          b.rec[o].jscollected = 0 /\ b.rec[o].resurrected = 0
  THEN LET b1 == lua_pushuserdata_resurrect(restart_finalizer(b, o), o)
           b2 == [b1 EXCEPT !.rec[o].context = "weak"]
           b3 == lua_rawset(lua_push(lua_push(b2, Ud(o)), LTRUE))
       IN IF Ok(b3) THEN [b3 EXCEPT !.rec[o].resurrected = 1] ELSE b3
  ELSE IF b.rec[o].type \in {LV8_OBJ_SB, LV8_OBJ_CTX}
  THEN [b EXCEPT !.rec[o].object = "empty"]
  ELSE IF b.rec[o].type # LV8_OBJ_JS THEN Fail(b, "assert: type is LV8_OBJ_JS")
  ELSE IF b.rec[o].object = "empty" THEN Fail(b, "empty handle dereferenced")
  ELSE [b EXCEPT !.rec[o].object = "empty"]

\* A faulty variant of lua_obj_gc that anchors the context and sets the
\* flag without arming the weak registration; C33 must tell it from the code.
lua_obj_gc_noweak(b, o) ==
  IF ~Ok(b) THEN b
  ELSE IF b.rec[o].type \in {LV8_OBJ_SB, LV8_OBJ_CTX} /\
          b.rec[o].jscollected = 0 /\ b.rec[o].resurrected = 0
  THEN LET b1 == lua_pushuserdata_resurrect(restart_finalizer(b, o), o)
           b3 == lua_rawset(lua_push(lua_push(b1, Ud(o)), LTRUE))
       IN IF Ok(b3) THEN [b3 EXCEPT !.rec[o].resurrected = 1] ELSE b3
  ELSE IF b.rec[o].type \in {LV8_OBJ_SB, LV8_OBJ_CTX}
  THEN [b EXCEPT !.rec[o].object = "empty"]
  ELSE IF b.rec[o].type # LV8_OBJ_JS THEN Fail(b, "assert: type is LV8_OBJ_JS")
  ELSE IF b.rec[o].object = "empty" THEN Fail(b, "empty handle dereferenced")
  ELSE [b EXCEPT !.hidden[b.rec[o].tgt] = 0, !.rec[o].object = "empty"]

\* part_001: the Lua proxy pointing to a guest object lost its Lua references.
lua_obj_gc(b, o) ==
  IF ~Ok(b) THEN b
  ELSE IF b.rec[o].type \in {LV8_OBJ_SB, LV8_OBJ_CTX} /\
          b.rec[o].jscollected = 0 /\ b.rec[o].resurrected = 0
  THEN LET b1 == lua_pushuserdata_resurrect(restart_finalizer(b, o), o)
           b2 == [b1 EXCEPT !.rec[o].context = "weak"]
           b3 == lua_rawset(lua_push(lua_push(b2, Ud(o)), LTRUE))
       IN IF Ok(b3) THEN [b3 EXCEPT !.rec[o].resurrected = 1] ELSE b3
  ELSE IF b.rec[o].type \in {LV8_OBJ_SB, LV8_OBJ_CTX}
  THEN [b EXCEPT !.rec[o].object = "empty"]
  ELSE IF b.rec[o].type # LV8_OBJ_JS THEN Fail(b, "assert: type is LV8_OBJ_JS")
  ELSE IF b.rec[o].object = "empty" THEN Fail(b, "empty handle dereferenced")
  ELSE [b EXCEPT !.hidden[b.rec[o].tgt] = 0, !.rec[o].object = "empty"]

\* src/lv8.cpp: the same finalizer; a context is told by its metatable
\* (modelled by the record's type) and re-inserted with persistent_add.
lv8_obj_gc(b, o) ==
  IF ~Ok(b) THEN b
  ELSE IF b.rec[o].type \in {LV8_OBJ_SB, LV8_OBJ_CTX} /\ b.rec[o].jscollected = 0
  THEN LET b1 == lua_pushuserdata_resurrect(restart_finalizer(b, o), o)
           b2 == [b1 EXCEPT !.rec[o].context = "weak"]
           b3 == persistent_add(b2, Ud(o), o)
       IN IF Ok(b3) THEN [b3 EXCEPT !.rec[o].resurrected = 1] ELSE b3
  ELSE IF b.rec[o].type \in {LV8_OBJ_SB, LV8_OBJ_CTX}
  THEN [b EXCEPT !.rec[o].object = "empty"]
  ELSE IF b.build = NoCacheBuild THEN [b EXCEPT !.rec[o].object = "empty"]
  ELSE IF b.rec[o].object = "empty" THEN Fail(b, "empty handle dereferenced")
  ELSE [b EXCEPT !.hidden[b.rec[o].tgt] = 0, !.rec[o].object = "empty"]

\* part_002: the finalizer of src/lv8.cpp with the guard on `resurrected`
\* and the restart of the finalizer.
lua_obj_gc_part002(b, o) ==
  IF ~Ok(b) THEN b
  ELSE IF b.rec[o].type \in {LV8_OBJ_SB, LV8_OBJ_CTX} /\
          b.rec[o].jscollected = 0 /\ b.rec[o].resurrected = 0
  THEN LET b1 == lua_pushuserdata_resurrect(restart_finalizer(b, o), o)
           b2 == [b1 EXCEPT !.rec[o].context = "weak"]
           b3 == persistent_add(b2, Ud(o), o)
       IN IF Ok(b3) THEN [b3 EXCEPT !.rec[o].resurrected = 1] ELSE b3
  ELSE IF b.rec[o].type \in {LV8_OBJ_SB, LV8_OBJ_CTX}
  THEN [b EXCEPT !.rec[o].object = "empty"]
  ELSE IF b.rec[o].object = "empty" THEN Fail(b, "empty handle dereferenced")
  ELSE [b EXCEPT !.hidden[b.rec[o].tgt] = 0, !.rec[o].object = "empty"]

\* ------------------------------------------------------ conversions
\* Local<Object>::New(ISOLATE, wrapper->object): the guest object behind a
\* record's handle.
OREF(b, r) ==
  IF b.rec[r].object = "empty" THEN EMPTY
  ELSE IF b.rec[r].type = LV8_OBJ_LUA THEN Proxy(r)
  ELSE IF b.rec[r].type = LV8_OBJ_JS THEN Js(b.rec[r].tgt)
  ELSE Gl(r)

\* Is the host value at idx a bridge userdata (metatable UV_OBJMT)?  0: no.
lv8_unwrap_lua(b, v) ==
  IF v[1] = "ud" /\ b.rec[v[2]].type # LV8_OBJ_LUA THEN v[2] ELSE 0

\* part_001: host value -> guest value.  Result: the state and the value.
\* ------------------------------------------------ primitive codec
\* String::NewFromUtf8: bytes to code points; a byte that is not part of a
\* well-formed sequence becomes U+FFFD.
RECURSIVE NewFromUtf8(_)
NewFromUtf8(s) ==
  IF s = <<>> THEN <<>>
  ELSE IF s[1] < 128 THEN <<s[1]>> \o NewFromUtf8(Tail(s))
  ELSE IF s[1] \in 194..223 /\ Len(s) >= 2 /\ s[2] \in 128..191
  THEN <<(s[1] - 192) * 64 + (s[2] - 128)>> \o NewFromUtf8(SubSeq(s, 3, Len(s)))
  ELSE <<65533>> \o NewFromUtf8(Tail(s))

\* String::Utf8Value: code points to bytes.
RECURSIVE Utf8Value(_)
Utf8Value(u) ==
  IF u = <<>> THEN <<>>
  ELSE (IF u[1] < 128 THEN <<u[1]>>
        ELSE IF u[1] < 2048 THEN <<192 + (u[1] \div 64), 128 + (u[1] % 64)>>
        ELSE <<224 + (u[1] \div 4096), 128 + ((u[1] \div 64) % 64), 128 + (u[1] % 64)>>)
       \o Utf8Value(Tail(u))

IsHostPrimitive(v) == v[1] \in {"nil", "boolean", "number", "string"}
IsGuestPrimitive(x) ==
  x[1] \in {"empty", "undefined", "null", "jboolean", "jbooleanobject", "jnumber",
            "jnumberobject", "jstring", "jstringobject"}

\* The base-type switch of convert_lua2js.
convert_lua2js_base(v) ==
  CASE v[1] = "boolean" -> JBool(v[2])
    [] v[1] = "nil" -> UNDEF
    [] v[1] = "number" -> JNum(v[2])
    [] v[1] = "string" -> JString(NewFromUtf8(v[2]))

\* A faulty variant of the first branches of convert_js2lua that gives null
\* a host value of its own; C27 must tell it from the code.
convert_js2lua_base_keepsnull(x) ==
  CASE x[1] \in {"empty", "undefined"} -> NIL
    [] x[1] = "null" -> HBool(0)
    [] x[1] \in {"jboolean", "jbooleanobject"} -> HBool(x[2])
    [] x[1] \in {"jnumber", "jnumberobject"} -> HNum(x[2], "float")
    [] x[1] \in {"jstring", "jstringobject"} -> HStr(Utf8Value(x[2]))

\* The first branches of convert_js2lua: lua_pushnil, lua_pushboolean,
\* lua_pushnumber (always a float), lua_pushlstring.
convert_js2lua_base(x) ==
  CASE x[1] \in {"empty", "undefined", "null"} -> NIL
    [] x[1] \in {"jboolean", "jbooleanobject"} -> HBool(x[2])
    [] x[1] \in {"jnumber", "jnumberobject"} -> HNum(x[2], "float")
    [] x[1] \in {"jstring", "jstringobject"} -> HStr(Utf8Value(x[2]))

\* Lua's ==: numbers compare by value, whatever their subtype.
lua_rawequal(a, c) ==
  IF a[1] = "number" /\ c[1] = "number" THEN a[2] = c[2] ELSE a = c

convert_lua2js(b, v) ==
  IF ~Ok(b) THEN [b |-> b, v |-> EMPTY]
  ELSE IF v = NIL THEN [b |-> b, v |-> UNDEF]
  ELSE IF v = STR THEN [b |-> b, v |-> JSTR]
  ELSE IF IsHostPrimitive(v) THEN [b |-> b, v |-> convert_lua2js_base(v)]
  ELSE LET u == lv8_unwrap_lua(b, v)
           w == IF u # 0 THEN u ELSE persistent_lookup_lua(b, v)
           n == FreeRec(b)
       IN IF w # 0 THEN [b |-> Deref(b, w), v |-> OREF(b, w)]
          ELSE IF n = 0 THEN [b |-> Fail(b, "out of records"), v |-> EMPTY]
          ELSE LET b1 == [b EXCEPT !.rec[n] = [NoRec EXCEPT !.st = "live",
                                     !.type = LV8_OBJ_LUA, !.object = "strong",
                                     !.host = v]]
                   b2 == persistent_add(b1, v, n)
                   b3 == IF Ok(b2) THEN [b2 EXCEPT !.rec[n].object = "weak"] ELSE b2
               IN [b |-> b3, v |-> OREF(b3, n)]

\* src/lv8.cpp: the wrapper of a host object is a Lua userdata without a
\* metatable, popped from the stack once the proxy is set up.
convert_lua2js_lv8cpp(b, v) ==
  IF ~Ok(b) THEN [b |-> b, v |-> EMPTY]
  ELSE IF v = NIL THEN [b |-> b, v |-> UNDEF]
  ELSE IF v = STR THEN [b |-> b, v |-> JSTR]
  ELSE IF IsHostPrimitive(v) THEN [b |-> b, v |-> convert_lua2js_base(v)]
  ELSE LET u == lv8_unwrap_lua(b, v)
           w == IF u # 0 THEN u ELSE persistent_lookup_lua(b, v)
           n == FreeRec(b)
       IN IF w # 0 THEN [b |-> Deref(b, w), v |-> OREF(b, w)]
          ELSE IF n = 0 THEN [b |-> Fail(b, "out of records"), v |-> EMPTY]
          ELSE LET b0 == lua_newuserdata_wrapper(b, n, LV8_OBJ_LUA)
                   b1 == [b0 EXCEPT !.rec[n].object = "strong", !.rec[n].host = v]
                   b2 == persistent_add(b1, v, n)
                   b3 == IF Ok(b2) THEN [b2 EXCEPT !.rec[n].object = "weak"] ELSE b2
               IN [b |-> lua_pop(b3, 1), v |-> OREF(b3, n)]

\* A faulty variant of lv8_wrap_js2lua that does not read the hidden tag
\* and wraps again; C14 must tell it from the code.
lv8_wrap_js2lua_untagged(b, g) ==
  IF ~Ok(b) THEN b
  ELSE LET n == FreeRec(b)
       IN IF n = 0 THEN Fail(b, "out of records")
          ELSE LET b1 == lua_newuserdata_wrapper(b, n, LV8_OBJ_JS)
               IN [b1 EXCEPT !.rec[n].object = "strong", !.rec[n].tgt = g,
                             !.hidden[g] = n]

\* A faulty variant of lv8_wrap_js2lua whose cache hit pushes the tagged
\* userdata itself, also one the collector has separated; C34 must tell it
\* from the code.
lv8_wrap_js2lua_pushesdying(b, g) ==
  IF ~Ok(b) THEN b
  ELSE IF b.hidden[g] # 0 THEN lua_push(b, Ud(b.hidden[g]))
  ELSE LET n == FreeRec(b)
       IN IF n = 0 THEN Fail(b, "out of records")
          ELSE LET b1 == lua_newuserdata_wrapper(b, n, LV8_OBJ_JS)
               IN [b1 EXCEPT !.rec[n].object = "strong", !.rec[n].tgt = g,
                             !.hidden[g] = n]

\* Wrap guest object g to a Lua proxy (new or cached through the hidden tag).
lv8_wrap_js2lua(b, g) ==
  IF ~Ok(b) THEN b
  ELSE IF b.hidden[g] # 0 THEN lua_pushuserdata_portable(b, b.hidden[g])
  ELSE LET n == FreeRec(b)
       IN IF n = 0 THEN Fail(b, "out of records")
          ELSE LET b1 == lua_newuserdata_wrapper(b, n, LV8_OBJ_JS)
               IN [b1 EXCEPT !.rec[n].object = "strong", !.rec[n].tgt = g,
                             !.hidden[g] = n]

\* src/lv8.cpp without LV8_CACHE_PERSISTENT: every import of guest object g
\* allocates a userdata; no tag is read or written.
lv8_wrap_js2lua_nocache(b, g) ==
  IF ~Ok(b) THEN b
  ELSE LET n == FreeRec(b)
       IN IF n = 0 THEN Fail(b, "out of records")
          ELSE LET b1 == lua_newuserdata_wrapper(b, n, LV8_OBJ_JS)
               IN [b1 EXCEPT !.rec[n].object = "strong", !.rec[n].tgt = g]

\* A faulty variant of convert_js2lua_unanchor that leaves the weak
\* registration armed; C4 must tell it from the code.
convert_js2lua_unanchor_keepsweak(b, c) ==
  LET u1 == lua_rawset(lua_push(lua_push(b, Top(b)), NIL))
      u2 == lua_pop(u1, 1)
  IN IF Ok(u2) THEN [u2 EXCEPT !.rec[c].resurrected = 0] ELSE u2

\* part_001, convert_js2lua's "caught mid-gc" block: context c, whose
\* userdata is on top of the stack, is un-anchored.
convert_js2lua_unanchor(b, c) ==
  LET u0 == [b EXCEPT !.rec[c].context = IF @ = "weak" THEN "strong" ELSE @]
      u1 == lua_rawset(lua_push(lua_push(u0, Top(u0)), NIL))
      u2 == lua_pop(u1, 1)
  IN IF Ok(u2) THEN [u2 EXCEPT !.rec[c].resurrected = 0] ELSE u2

\* part_001: guest value -> host value, pushed on the host stack.
convert_js2lua(b, x, sb_extract) ==
  IF ~Ok(b) THEN b
  ELSE IF x \in {EMPTY, UNDEF} THEN lua_push(b, NIL)
  ELSE IF x = JSTR THEN lua_push(b, STR)
  ELSE IF IsGuestPrimitive(x) THEN lua_push(b, convert_js2lua_base(x))
  ELSE IF x[1] = "js" THEN lv8_wrap_js2lua(b, x[2])
  ELSE IF x[1] = "proxy" THEN persistent_lookup_js(Deref(b, x[2]), x[2])
  ELSE LET c == x[2]
           b1 == lua_pushuserdata_portable(Deref(b, c), c)
           b2 == IF Ok(b1) /\ b1.rec[c].jscollected # 0
                 THEN Fail(b1, "assert: must not be past weak_context") ELSE b1
           b3 == IF Ok(b2) /\ b2.rec[c].resurrected # 0
                 THEN convert_js2lua_unanchor(b2, c)
                 ELSE b2
           b4 == IF Ok(b3) /\ sb_extract /\ b3.rec[c].type = LV8_OBJ_SB
                 THEN LET e == persistent_lookup_js(lua_pop(b3, 1), c)
                      IN IF Ok(e) /\ Top(e) = NIL
                         THEN Fail(e, "assert: sandbox table is linked") ELSE e
                 ELSE b3
       IN b4

\* src/lv8.cpp: every proxy instance and every context global is read as an
\* lv8_context.  The wrapper of a host object is only an lv8_object, so its
\* jscollected / resurrected are read past the end of the record.
convert_js2lua_lv8cpp(b, x) ==
  IF ~Ok(b) THEN b
  ELSE IF x \in {EMPTY, UNDEF} THEN lua_push(b, NIL)
  ELSE IF x = JSTR THEN lua_push(b, STR)
  ELSE IF IsGuestPrimitive(x) THEN lua_push(b, convert_js2lua_base(x))
  ELSE IF x[1] = "js" THEN (IF b.build = NoCacheBuild THEN lv8_wrap_js2lua_nocache(b, x[2])
                            ELSE lv8_wrap_js2lua(b, x[2]))
  ELSE LET c == x[2]
           short == b.rec[c].type = LV8_OBJ_LUA
           jsc == IF short THEN (IF b.ub = "collected" THEN 1 ELSE 0)
                  ELSE b.rec[c].jscollected
           res == IF short THEN (IF b.ub = "resurrected" THEN 1 ELSE 0)
                  ELSE b.rec[c].resurrected
           b1 == Deref(b, c)
           b2 == IF Ok(b1) /\ jsc # 0
                 THEN Fail(b1, "assert: must not be past weak_context") ELSE b1
           b3 == IF Ok(b2) /\ res # 0
                 THEN LET u0 == IF short THEN b2
                                ELSE [b2 EXCEPT !.rec[c].context =
                                          IF @ = "weak" THEN "strong" ELSE @]
                          u1 == persistent_del_lv8cpp(lua_pushuserdata_portable(u0, c), c)
                      IN IF Ok(u1) /\ ~short THEN [u1 EXCEPT !.rec[c].resurrected = 0]
                         ELSE u1
                 ELSE b2
       IN lua_pushuserdata_portable(b3, c)

\* part_002: lv8_is_js_sandbox pushes the userdata of a proxy instance and
\* tells the wrapper of a host object (no metatable: the host object is
\* looked up and returned) from a sandbox.
lv8_is_js_sandbox(b, c) ==
  LET b1 == lua_pushuserdata_portable(b, c)
      b2 == IF Ok(b1) /\ Top(b1) = NIL
            THEN Fail(b1, "assert: proxy userdata is registered") ELSE b1
  IN IF Ok(b2) /\ b2.rec[c].type = LV8_OBJ_LUA
     THEN persistent_lookup_js(lua_pop(b2, 1), c)
     ELSE b2

\* part_002: guest value -> host value, pushed on the host stack.
convert_js2lua_part002(b, x) ==
  IF ~Ok(b) THEN b
  ELSE IF x \in {EMPTY, UNDEF} THEN lua_push(b, NIL)
  ELSE IF x = JSTR THEN lua_push(b, STR)
  ELSE IF IsGuestPrimitive(x) THEN lua_push(b, convert_js2lua_base(x))
  ELSE IF x[1] = "js" THEN lv8_wrap_js2lua(b, x[2])
  ELSE IF x[1] = "proxy" THEN lv8_is_js_sandbox(b, x[2])
  ELSE LET c == x[2]
           b0 == IF b.rec[c].type = LV8_OBJ_SB THEN lv8_is_js_sandbox(b, c)
                 ELSE lua_pushuserdata_portable(b, c)
           b1 == Deref(b0, c)
           b2 == IF Ok(b1) /\ b1.rec[c].jscollected # 0
                 THEN Fail(b1, "assert: must not be past weak_context") ELSE b1
       IN IF ~Ok(b2) \/ b2.rec[c].resurrected = 0 THEN b2
          ELSE LET u0 == [b2 EXCEPT !.rec[c].context = IF @ = "weak" THEN "strong" ELSE @]
                   u1 == persistent_del_lv8cpp(lua_push(u0, Top(u0)), c)
               IN IF Ok(u1) THEN [u1 EXCEPT !.rec[c].resurrected = 0] ELSE u1

\* -------------------------------------------------------- factories
\* part_001: context factory common to Lua and JS callers.
lv8_context_factory(b) ==
  LET n == FreeRec(b)
  IN IF ~Ok(b) THEN b
     ELSE IF n = 0 THEN Fail(b, "out of records")
     ELSE [lua_newuserdata_wrapper(b, n, LV8_OBJ_CTX) EXCEPT
             !.rec[n].context = "strong", !.rec[n].object = "weak"]

\* part_001: sandbox factory; links the original host value at idx.
lv8_sandbox_factory(b, v) ==
  LET n == FreeRec(b)
  IN IF ~Ok(b) THEN b
     ELSE IF n = 0 THEN Fail(b, "out of records")
     ELSE LET b1 == [lua_newuserdata_wrapper(b, n, LV8_OBJ_SB) EXCEPT
                       !.rec[n].context = "strong", !.rec[n].object = "weak",
                       !.rec[n].host = v]
          IN lua_rawset(lua_push(lua_push(b1, Light(n)), v))

\* src/lv8.cpp: the sandbox constructor; the host value is not recorded.
lv8_create_sandbox_lv8cpp(b, v) ==
  LET n == FreeRec(b)
  IN IF ~Ok(b) THEN b
     ELSE IF n = 0 THEN Fail(b, "out of records")
     ELSE [lua_newuserdata_wrapper(b, n, LV8_OBJ_SB) EXCEPT
             !.rec[n].context = "strong", !.rec[n].object = "weak", !.rec[n].host = v]

\* ---------------------------------------------------------- lifecycle
IsContext(c) == rec[c].st # "unalloc" /\ rec[c].type \in {LV8_OBJ_CTX, LV8_OBJ_SB}
IsHostProxy(r) == rec[r].st # "unalloc" /\ rec[r].type = LV8_OBJ_LUA
Anchored(c) == IsContext(c) /\ rec[c].resurrected = 0 /\ rec[c].jscollected = 0
PendingRelease(c) == IsContext(c) /\ rec[c].resurrected = 1 /\ rec[c].jscollected = 0
Collected(c) == IsContext(c) /\ rec[c].jscollected = 1
\* The host value registered for wrapper r in the Reference Table.
Registered(r) == reftab[Light(r)]

\* ------------------------------------------------------ reachability
\* The Reference Table is a strong Lua table: its keys and values are
\* reachable; the pudata registry holds its values weakly.
HostReachable(v) ==
  \/ v \in hostRefs
  \/ v \in Keys /\ reftab[v] # NIL
  \/ \E k \in Keys : reftab[k] = v

\* A guest proxy is reachable while guest code holds it.
GuestReachable(x) == x \in guestRefs

\* ------------------------------------------------------------- Init
InitState ==
  /\ reftab = [k \in Keys |-> NIL]
  /\ rec = [r \in Recs |-> NoRec]
  /\ hidden = [g \in 1..MaxGuest |-> 0]
  /\ hostRefs = {}
  /\ guestRefs = {}
  /\ abort = ""
  /\ last = [op |-> "init", arg |-> NIL, res |-> NIL, pend |-> FALSE, prev |-> NIL]
  /\ entered = <<>>
  /\ frames = <<>>
  /\ done = [op |-> "none", raised |-> FALSE, before |-> 0, after |-> 0,
             enters |-> 0, exits |-> 0]
  /\ fatal = ""
  /\ tab = [k \in HKeys |-> NIL]
  /\ native = [k \in GProps |-> EMPTY]
  /\ glob = [k \in GProps |-> EMPTY]
  /\ raises = NIL
  /\ out = NoOut

Init == build \in Builds /\ InitState

Commit(b) ==
  /\ reftab' = b.reftab
  /\ rec' = b.rec
  /\ hidden' = b.hidden
  /\ abort' = b.abort
  /\ build' = build

\* What a handler hands to its caller: the value on top of the host stack.
Returned(b) == IF Ok(b) /\ Top(b) \in HostObjs THEN {Top(b)} ELSE {}

\* The wrapper of plain guest object x that the host program holds (nil:
\* none); bookkeeping of the model, recorded with each import.
HeldWrapper(x) ==
  IF x \in GuestPlain /\ \E r \in Recs : Ud(r) \in hostRefs /\ rec[r].type = LV8_OBJ_JS /\
                                          rec[r].tgt = x[2]
  THEN Ud(CHOOSE r \in Recs : Ud(r) \in hostRefs /\ rec[r].type = LV8_OBJ_JS /\
                              rec[r].tgt = x[2])
  ELSE NIL

\* --------------------------------------------- host-facing handlers
\* lv8.context(): no initializer.
lv8_create_context ==
  /\ abort = "" /\ NumFree(Cur(<<>>, "zero")) >= 1
  /\ \E ub \in {"zero"} :
       LET b == lv8_context_factory(Cur(<<NIL>>, ub))
       IN /\ Commit(b)
          /\ hostRefs' = hostRefs \cup Returned(b)
          /\ last' = [op |-> "create_context", arg |-> NIL, res |-> Top(b), pend |-> FALSE, prev |-> NIL]
  /\ UNCHANGED guestRefs
  /\ UNCHANGED <<svars, dvars>>

\* lv8.sandbox(v)
lv8_create_sandbox(v) ==
  /\ abort = "" /\ NumFree(Cur(<<>>, "zero")) >= 1
  /\ v \in hostRefs
  /\ \E ub \in {"zero"} :
       LET b == IF build = "part_001"
                THEN lv8_sandbox_factory(Cur(<<v>>, ub), v)
                ELSE lv8_create_sandbox_lv8cpp(Cur(<<v>>, ub), v)
       IN /\ Commit(b)
          /\ hostRefs' = hostRefs \cup Returned(b)
          /\ last' = [op |-> "create_sandbox", arg |-> v, res |-> Top(b), pend |-> FALSE, prev |-> NIL]
  /\ UNCHANGED guestRefs
  /\ UNCHANGED <<svars, dvars>>

\* o[k] = v from Lua, k a string: v crosses host -> guest and is stored in
\* the guest heap.
lua_obj_newindex(o, v) ==
  /\ abort = "" /\ NumFree(Cur(<<>>, "zero")) >= 1
  /\ o \in hostRefs \cap Uds /\ rec[o[2]].type # LV8_OBJ_LUA
  /\ v \in hostRefs
  /\ \E ub \in UBOutcomes :
       LET b0 == Cur(<<o, STR, v>>, ub)
           b1 == IF OREF(b0, o[2]) = EMPTY THEN Fail(b0, "empty handle dereferenced")
                 ELSE b0
           r == IF build = "part_001" THEN convert_lua2js(b1, v)
                ELSE convert_lua2js_lv8cpp(b1, v)
       IN /\ Commit(r.b)
          /\ guestRefs' = guestRefs \cup (IF Ok(r.b) THEN {r.v} \cap GuestProx ELSE {})
          /\ last' = [op |-> "newindex", arg |-> v, res |-> r.v, pend |-> FALSE, prev |-> NIL]
  /\ UNCHANGED hostRefs
  /\ UNCHANGED <<svars, dvars>>

\* o[k] from Lua, k a string: the guest value x found there crosses
\* guest -> host and is returned.
lua_obj_index(o, x) ==
  /\ abort = "" /\ NumFree(Cur(<<>>, "zero")) >= 1
  /\ o \in hostRefs \cap Uds /\ rec[o[2]].type # LV8_OBJ_LUA
  /\ x \in guestRefs \cup GuestPlain
  /\ \E ub \in UBOutcomes :
       LET b0 == Cur(<<o, STR>>, ub)
           b1 == IF OREF(b0, o[2]) = EMPTY THEN Fail(b0, "empty handle dereferenced")
                 ELSE b0
           k == IF build = "part_001" THEN convert_lua2js(b1, STR)
                ELSE convert_lua2js_lv8cpp(b1, STR)
           b2 == IF build = "part_001" THEN convert_js2lua(k.b, x, FALSE)
                 ELSE IF build = "part_002" THEN convert_js2lua_part002(k.b, x)
                 ELSE convert_js2lua_lv8cpp(k.b, x)
       IN /\ Commit(b2)
          /\ hostRefs' = hostRefs \cup Returned(b2)
          /\ last' = [op |-> "index", arg |-> x, res |-> Top(b2),
                      pend |-> x[1] = "gl" /\ PendingRelease(x[2]),
                      prev |-> HeldWrapper(x)]
  /\ UNCHANGED guestRefs
  /\ UNCHANGED <<svars, dvars>>

\* ------------------------------------------------- the host program
HostNewTable(i) ==
  /\ abort = "" /\ ~HostReachable(Tab(i))
  /\ hostRefs' = hostRefs \cup {Tab(i)}
  /\ UNCHANGED <<build, reftab, rec, hidden, guestRefs, abort, last>>
  /\ UNCHANGED <<svars, dvars>>

HostDrop(v) ==
  /\ abort = "" /\ v \in hostRefs
  /\ hostRefs' = hostRefs \ {v}
  /\ UNCHANGED <<build, reftab, rec, hidden, guestRefs, abort, last>>
  /\ UNCHANGED <<svars, dvars>>

\* ------------------------------------------------ the guest program
GuestDrop(x) ==
  /\ abort = "" /\ x \in guestRefs
  /\ guestRefs' = guestRefs \ {x}
  /\ UNCHANGED <<build, reftab, rec, hidden, hostRefs, abort, last>>
  /\ UNCHANGED <<svars, dvars>>

\* ------------------------------------------------ the Lua collector
\* An unreachable userdata with a finalizer is separated for finalization;
\* the weak-valued pudata registry loses it at that point.
LuaGCSeparate(r) ==
  /\ abort = "" /\ rec[r].ud = "live" /\ rec[r].type # LV8_OBJ_LUA
  /\ ~HostReachable(Ud(r))
  /\ rec' = [rec EXCEPT ![r].ud = "tobefnz", ![r].pud = FALSE]
  /\ UNCHANGED <<build, reftab, hidden, hostRefs, guestRefs, abort, last>>
  /\ UNCHANGED <<svars, dvars>>

\* The __gc metamethod runs on a separated userdata.
LuaFinalize(r) ==
  /\ abort = "" /\ rec[r].ud = "tobefnz"
  /\ \E ub \in {"zero"} :
       LET b == IF build = "part_001" THEN lua_obj_gc(Cur(<<Ud(r)>>, ub), r)
                ELSE IF build = "part_002" THEN lua_obj_gc_part002(Cur(<<Ud(r)>>, ub), r)
                ELSE lv8_obj_gc(Cur(<<Ud(r)>>, ub), r)
           d == IF Ok(b) /\ b.rec[r].ud = "tobefnz"
                THEN [b EXCEPT !.rec[r].ud = "finalized"] ELSE b
       IN /\ Commit(d)
          /\ last' = [op |-> "gc", arg |-> Ud(r), res |-> NIL, pend |-> FALSE, prev |-> NIL]
  /\ UNCHANGED <<hostRefs, guestRefs>>
  /\ UNCHANGED <<svars, dvars>>

\* The memory of an unreachable userdata is released: after its finalizer
\* ran, or at once when it has no finalizer.
LuaFree(r) ==
  /\ abort = "" /\ ~HostReachable(Ud(r))
  /\ \/ rec[r].ud = "finalized"
     \/ rec[r].ud = "live" /\ rec[r].type = LV8_OBJ_LUA
  /\ rec' = [rec EXCEPT ![r].ud = "freed", ![r].st = "freed", ![r].pud = FALSE]
  /\ UNCHANGED <<build, reftab, hidden, hostRefs, guestRefs, abort, last>>
  /\ UNCHANGED <<svars, dvars>>

\* ------------------------------------------------- the V8 collector
\* The proxy of a host object is unreachable in the guest: its weak
\* callback runs.
V8CollectProxy(r) ==
  /\ abort = "" /\ rec[r].type = LV8_OBJ_LUA /\ rec[r].object = "weak"
  /\ ~GuestReachable(Proxy(r))
  /\ \E ub \in UBOutcomes :
       LET b == IF build = "part_001" THEN js_weak_object(Cur(<<>>, ub), r)
                ELSE js_weak_object_lv8cpp(Cur(<<>>, ub), r)
       IN /\ Commit(b)
          /\ last' = [op |-> "weak_object", arg |-> Light(r), res |-> NIL, pend |-> FALSE, prev |-> NIL]
  /\ UNCHANGED <<hostRefs, guestRefs>>
  /\ UNCHANGED <<svars, dvars>>

\* A context whose handle is weak is unreachable in the guest; V8 runs the
\* context's callback first, which also disposes the global's handle.
V8CollectContext(c) ==
  /\ abort = "" /\ rec[c].type \in {LV8_OBJ_CTX, LV8_OBJ_SB}
  /\ rec[c].context = "weak" /\ ~GuestReachable(Gl(c))
  /\ \E ub \in UBOutcomes :
       LET b == js_weak_context(Cur(<<>>, ub), c)
       IN /\ Commit(b)
          /\ last' = [op |-> "weak_context", arg |-> Light(c), res |-> NIL, pend |-> FALSE, prev |-> NIL]
  /\ UNCHANGED <<hostRefs, guestRefs>>
  /\ UNCHANGED <<svars, dvars>>

\* The same collection, with the callback of the global's weak handle run
\* before the context's (V8 fixes no order between pending callbacks).
V8CollectGlobal(c) ==
  /\ abort = "" /\ rec[c].type \in {LV8_OBJ_CTX, LV8_OBJ_SB}
  /\ rec[c].context = "weak" /\ rec[c].object = "weak" /\ ~GuestReachable(Gl(c))
  /\ \E ub \in UBOutcomes :
       LET b1 == IF build = "part_001" THEN js_weak_object(Cur(<<>>, ub), c)
                 ELSE js_weak_object_lv8cpp(Cur(<<>>, ub), c)
           b == js_weak_context(b1, c)
       IN /\ Commit(b)
          /\ last' = [op |-> "weak_global", arg |-> Light(c), res |-> NIL, pend |-> FALSE, prev |-> NIL]
  /\ UNCHANGED <<hostRefs, guestRefs>>
  /\ UNCHANGED <<svars, dvars>>

\* ------------------------------------------------------------- Next
Next ==
  \/ lv8_create_context
  \/ \E v \in HostObjs : lv8_create_sandbox(v)
  \/ \E o \in Uds, v \in HostObjs : lua_obj_newindex(o, v)
  \/ \E o \in Uds, x \in GuestPlain \cup GuestProx : lua_obj_index(o, x)
  \/ \E i \in 1..MaxHost : HostNewTable(i)
  \/ \E v \in HostObjs : HostDrop(v)
  \/ \E x \in GuestProx : GuestDrop(x)
  \/ \E r \in Recs : LuaGCSeparate(r)
  \/ \E r \in Recs : LuaFinalize(r)
  \/ \E r \in Recs : LuaFree(r)
  \/ \E r \in Recs : V8CollectProxy(r)
  \/ \E c \in Recs : V8CollectContext(c)
  \/ \E c \in Recs : V8CollectGlobal(c)

Spec == Init /\ [][Next]_vars

\* The bridge of src/lv8.cpp built without the identity cache.
InitNoCache == build = NoCacheBuild /\ InitState
CacheSpec == InitNoCache /\ [][Next]_vars

\* ------------------------------------------------------- lua_close
\* The finalizer installed as __gc, as this build defines it.
obj_gc(b, r) ==
  IF b.build = "part_001" THEN lua_obj_gc(b, r)
  ELSE IF b.build = "part_002" THEN lua_obj_gc_part002(b, r)
  ELSE lv8_obj_gc(b, r)

\* Closing the Lua state calls the pending finalizer of every userdata,
\* reachable or not, latest first (the finalizers of two userdata touch
\* disjoint parts of the state, so the order does not change the outcome).
CallFinalizer(b, r) ==
  IF ~Ok(b) THEN b
  ELSE IF b.rec[r].ud \in {"live", "tobefnz"} /\ b.rec[r].type # LV8_OBJ_LUA
  THEN CHOOSE x \in {obj_gc(p, r) : p \in {lua_push(b, Ud(r))}} : TRUE
  ELSE b

RECURSIVE CallFinalizersFrom(_, _)
CallFinalizersFrom(S, r) ==
  IF r = 0 THEN S
  ELSE CallFinalizersFrom({CallFinalizer(b, r) : b \in S}, r - 1)

CallAllFinalizers(b, r) == CHOOSE x \in CallFinalizersFrom({b}, r) : TRUE

\* lua_close: the finalizers run, then every Lua object is freed: the
\* userdata records and the Reference Table with them.  The bridge's V8
\* handles and the records allocated with new stay.
lua_close ==
  /\ abort = ""
  /\ \E ub \in {"zero"} :
       \E b \in {CallAllFinalizers(Cur(<<>>, ub), MaxRec)} :
          /\ rec' = [r \in Recs |->
                      IF Ok(b) /\ b.rec[r].ud # "none"
                      THEN [b.rec[r] EXCEPT !.ud = "freed", !.st = "freed", !.pud = FALSE]
                      ELSE b.rec[r]]
          /\ reftab' = IF Ok(b) THEN [k \in Keys |-> NIL] ELSE b.reftab
          /\ hidden' = b.hidden
          /\ abort' = IF Ok(b) THEN "closed" ELSE b.abort
  /\ hostRefs' = {}
  /\ last' = [op |-> "close", arg |-> NIL, res |-> NIL, pend |-> FALSE, prev |-> NIL]
  /\ UNCHANGED <<build, guestRefs>>
  /\ UNCHANGED <<svars, dvars>>

CloseNext == Next \/ lua_close

\* The bridge with the shutdown of its host.
CloseSpec == Init /\ [][CloseNext]_vars

\* The model's record pool is never exhausted inside a handler.
PoolOk == abort # "out of records"

\* ======================================================== statements

\* C1: identity preservation.  A host object o that crossed to the guest
\* comes back as o itself when its proxy (not yet finalized) crosses back
\* to the host, and while that proxy lives no second proxy stands for o.
C1_Identity ==
  /\ (abort = "" /\ last.op = "index" /\ last.arg[1] = "proxy")
        => last.res = rec[last.arg[2]].host
  /\ \A r1, r2 \in Recs :
       (IsHostProxy(r1) /\ IsHostProxy(r2) /\ rec[r1].object # "empty" /\
        rec[r2].object # "empty" /\ rec[r1].host = rec[r2].host) => r1 = r2

\* C2: each host object has at most one wrapper (HostProxy, Context or
\* Sandbox) registered for it in the Reference Table.
C2_OneWrapper ==
  \A r1, r2 \in Recs :
    (Registered(r1) # NIL /\ Registered(r1) = Registered(r2)) => r1 = r2

\* C3: the Reference Table is balanced: host -> wrapper is present exactly
\* when the matching wrapper -> host is present.
C3_Balanced ==
  /\ \A r \in Recs : Registered(r) # NIL => reftab[Registered(r)] = Light(r)
  /\ \A k \in HostObjs : reftab[k] # NIL =>
        (reftab[k] \in Lights /\ reftab[reftab[k]] = k)

\* The steps the statements below are about.
\* convert_js2lua hands context c, found PendingRelease, back to the host.
ReObserve(c) ==
  /\ PendingRelease(c)
  /\ last'.op = "index" /\ last'.arg = Gl(c) /\ last'.pend
\* The local finalizer runs on the userdata of record r.
LocalFinalize(r) == rec[r].ud = "tobefnz" /\ rec'[r].ud # "tobefnz"
\* A remote finalizer marks context c collected.
RemoteFinalize(c) == rec[c].jscollected = 0 /\ rec'[c].jscollected = 1

\* The Reference Table entries of context c that the local finalizer
\* inserted to resurrect it.
AnchorKeys(c) == {Ud(c)} \cup (IF reftab[Light(c)] = Ud(c) THEN {Light(c)} ELSE {})

C5_TerminalCollection ==
  [][\A c \in Recs :
       (PendingRelease(c) /\ RemoteFinalize(c)) =>
          (reftab'[Ud(c)] = NIL /\ reftab'[Light(c)] = NIL)]_vars

\* C6: the local finalizer on an Anchored context frees nothing: both
\* handles stay non-empty, the record stays alive and anchored by the
\* Reference Table; only the pending flag, the weak registration and the
\* resurrection anchor change.
C6_PendingFreesNothing ==
  [][\A c \in Recs :
       (Anchored(c) /\ LocalFinalize(c)) =>
          /\ abort' = ""
          /\ rec'[c].object # "empty" /\ rec'[c].context # "empty"
          /\ rec'[c].st = "live" /\ rec'[c].ud = "live"
          /\ reftab'[Ud(c)] # NIL
          /\ rec'[c] = [rec[c] EXCEPT !.resurrected = 1, !.context = "weak",
                                      !.ud = "live", !.pud = rec'[c].pud]
          /\ \A r \in Recs \ {c} : rec'[r] = rec[r]
          /\ \A k \in Keys \ {Ud(c), Light(c)} : reftab'[k] = reftab[k]
          /\ hidden' = hidden]_vars

C6_Pending ==
  \E c \in Recs : /\ PendingRelease(c) /\ last.op = "gc" /\ last.arg = Ud(c)
                  /\ rec[c].object # "empty" /\ rec[c].context = "weak"

\* C7: a context wrapper takes only the listed transitions, each by the
\* listed cause: Anchored -> PendingRelease by the local finalizer,
\* PendingRelease -> Anchored by re-observation, PendingRelease ->
\* Collected by a remote finalizer; never Anchored -> Collected; and
\* Collected is terminal (never cleared, never re-armed, never re-inserted).
C7_Lifecycle ==
  [][\A c \in Recs :
       /\ (Anchored(c) /\ ~Anchored(c)') => (PendingRelease(c)' /\ LocalFinalize(c))
       /\ (PendingRelease(c) /\ ~PendingRelease(c)') =>
             \/ Anchored(c)' /\ ReObserve(c)
             \/ /\ Collected(c)'
                /\ last'.op \in {"weak_context", "weak_global"} /\ last'.arg = Light(c)
       /\ Collected(c) =>
             /\ Collected(c)' /\ rec'[c].context = "empty"
             /\ \A k \in {Ud(c), Light(c)} : reftab'[k] \in {reftab[k], NIL}
       /\ (~IsContext(c) /\ IsContext(c)') => Anchored(c)']_vars

C7_Collected ==
  \E c \in Recs : Collected(c) /\ last.op = "weak_context" /\ last.arg = Light(c)

\* C8: no Reference Table entry, under either key, refers to a wrapper that
\* is Collected or whose guest proxy has been finalized.
C8_LiveEntriesOnly ==
  \A r \in Recs :
    (Collected(r) \/ (IsHostProxy(r) /\ rec[r].object = "empty")) =>
       /\ reftab[Light(r)] = NIL /\ reftab[Ud(r)] = NIL
       /\ \A k \in Keys : reftab[k] # Light(r)

\* Host value v is strongly held by the Reference Table.
HeldByTable(v) == (v \in Keys /\ reftab[v] # NIL) \/ \E k \in Keys : reftab[k] = v

\* C9: no premature collection.  A host object stays held by the Reference
\* Table while its guest proxy is reachable; a guest object stays strongly
\* anchored while its host wrapper is reachable; a sandbox's host table
\* stays held while the sandbox is reachable from either side; a context
\* reachable from the guest is not released.
C9_NoPrematureCollection ==
  /\ \A r \in Recs : (IsHostProxy(r) /\ Proxy(r) \in guestRefs) => HeldByTable(rec[r].host)
  /\ \A r \in Recs : (rec[r].st # "unalloc" /\ rec[r].type = LV8_OBJ_JS /\ Ud(r) \in hostRefs)
        => rec[r].object = "strong"
  /\ \A c \in Recs : (rec[c].st # "unalloc" /\ rec[c].type = LV8_OBJ_SB /\
                      (Ud(c) \in hostRefs \/ Gl(c) \in guestRefs))
        => HostReachable(rec[c].host)
  /\ \A c \in Recs : (IsContext(c) /\ Gl(c) \in guestRefs)
        => (rec[c].st = "live" /\ rec[c].jscollected = 0 /\
            rec[c].context # "empty" /\ rec[c].object # "empty")

\* C10: a wrapper record is not freed while a Reference Table entry, a
\* guest proxy's backpointer or an identity tag still points to it, no
\* freed record is used, and none is freed twice.
C10_NoDanglingRecord ==
  /\ abort \notin {"use after free", "double free"}
  /\ \A r \in Recs : rec[r].st = "freed" =>
        /\ reftab[Light(r)] = NIL /\ \A k \in Keys : reftab[k] # Light(r)
        /\ rec[r].object = "empty"
        /\ \A g \in 1..MaxGuest : hidden[g] # r

\* persistent_del runs for record r in this step: from js_weak_object,
\* whose lookup found a value, or (src/lv8.cpp, part_002) from the
\* re-observation of context r in convert_js2lua.
DelFromWeak(r) ==
  /\ abort = "" /\ last'.op \in {"weak_object", "weak_global"} /\ last'.arg = Light(r)
  /\ rec[r].object = "weak" /\ reftab[Light(r)] # NIL
DelFromReObserve(r) == build # "part_001" /\ abort = "" /\ ReObserve(r)
\* The host value persistent_del finds on the stack.
DelValue(r) == IF DelFromWeak(r) THEN reftab[Light(r)]
               ELSE IF rec[r].pud THEN Ud(r) ELSE NIL
DelAsserts == {"assert: persistent_del of nil", "assert: persistent_del of a foreign value"}

\* C11: at every call of persistent_del the entry being removed exists in
\* both directions, the value on the host stack is the one the function
\* requires (no assertion of persistent_del fails), and both directions
\* are removed.
C11_RemovalFollowsLookup ==
  [][/\ abort' \notin DelAsserts
     /\ \A r \in Recs : (DelFromWeak(r) \/ DelFromReObserve(r)) =>
          /\ DelValue(r) # NIL
          /\ reftab[DelValue(r)] = Light(r) /\ reftab[Light(r)] = DelValue(r)
          /\ abort' = "" => (reftab'[DelValue(r)] = NIL /\ reftab'[Light(r)] = NIL)]_vars

\* C12: persistent_add is never invoked for a host key that already has a
\* mapping: its assertion holds at every call, also when the finalizer
\* runs again on a context that is already PendingRelease.
C12_NoDuplicateInsert == abort # "assert: persistent_add on a mapped key"

\* The guest object that the bridge hands to the host as userdata Ud(r).
Imported(r) ==
  IF rec[r].type = LV8_OBJ_JS THEN Js(rec[r].tgt)
  ELSE IF rec[r].type = LV8_OBJ_LUA THEN Proxy(r)
  ELSE Gl(r)

\* C13: guest-side round trip.  A wrapper that the host received for guest
\* object g converts back (convert_lua2js) to g itself, and no proxy is ever
\* created over a wrapper userdata.
C13_GuestRoundTrip ==
  /\ (abort = "" /\ last.op = "newindex" /\ last.arg \in Uds)
        => last.res = Imported(last.arg[2])
  /\ \A r \in Recs : IsHostProxy(r) => rec[r].host \notin Uds

\* The wrapper records that anchor plain guest object g.
AnchorsOf(g) == {r \in Recs : rec[r].st = "live" /\ rec[r].type = LV8_OBJ_JS /\
                             rec[r].tgt = g /\ rec[r].object = "strong"}

C15_TagIsAccelerator ==
  (abort = "" /\ last.op = "index" /\ last.arg \in GuestPlain) =>
     /\ last.prev # NIL => last.res = last.prev
     /\ Cardinality(AnchorsOf(last.arg[2])) = 1

\* js_weak_object runs in this step for the proxy of a host object.
WeakObjectRuns(r) ==
  /\ abort = "" /\ IsHostProxy(r) /\ rec[r].object = "weak"
  /\ last'.op = "weak_object" /\ last'.arg = Light(r)

\* C16: HostProxy release.  When the guest holds no reference to the proxy
\* of a host object and js_weak_object runs for it, the callback finds the
\* proxy tracked, removes both Reference Table directions and releases the
\* anchor: no entry of the proxy keeps the host object alive afterwards.
C16_HostProxyRelease ==
  [][\A r \in Recs : (WeakObjectRuns(r) /\ Proxy(r) \notin guestRefs) =>
        /\ reftab[Light(r)] = rec[r].host
        /\ abort' = ""
        /\ reftab'[Light(r)] = NIL /\ \A k \in Keys : reftab'[k] # Light(r)
        /\ rec'[r].object = "empty"]_vars

\* Plain guest object g is imported in this step and a userdata is returned.
ImportReturns(g, n) ==
  /\ abort = "" /\ abort' = ""
  /\ last' # last /\ last'.op = "index" /\ last'.arg = Js(g) /\ last'.res = Ud(n)

\* C17: the local finalizer of a guest-object wrapper clears the object's
\* identity tag and releases the strong anchor; an import of the object
\* after that mints and tags a new wrapper, and no import ever returns a
\* finalized wrapper.
C17_GuestCacheFinalizer ==
  [][/\ \A r \in Recs :
          (rec[r].st = "live" /\ rec[r].type = LV8_OBJ_JS /\ LocalFinalize(r)) =>
             /\ abort' = ""
             /\ hidden'[rec[r].tgt] = 0 /\ rec'[r].object = "empty"
     /\ \A g \in 1..MaxGuest, n \in Recs : ImportReturns(g, n) =>
          /\ rec[n].ud \notin {"tobefnz", "finalized", "freed"}
          /\ rec'[n].object = "strong" /\ rec'[n].tgt = g /\ hidden'[g] = n
          /\ hidden[g] = 0 => rec[n].st = "unalloc"]_vars

\* A guest object is imported again after the finalizer of its first
\* wrapper ran: a new wrapper stands for it.
C17_Rewrapped ==
  /\ abort = "" /\ last.op = "index" /\ last.arg \in GuestPlain /\ last.res \in Uds
  /\ hidden[last.arg[2]] = last.res[2]
  /\ \E r \in Recs : /\ Ud(r) # last.res /\ rec[r].type = LV8_OBJ_JS
                      /\ rec[r].tgt = last.arg[2] /\ rec[r].ud \in {"finalized", "freed"}
                      /\ rec[r].object = "empty"

MaxCtx == 2
MaxNest == 5
Ctxs == 1..MaxCtx

HostOps == {"call", "index", "newindex", "tostring", "pairs", "ipairs", "len",
            "newInstance", "createContext"}

\* The inputs that select a path through a handler.
Variants(op) ==
  CASE op = "tostring" -> {"object", "error"}
    [] op = "ipairs" -> {"array", "other"}
    [] op = "newInstance" -> {"prototype", "other"}
    [] op = "createContext" -> {"none", "table", "object"}
    [] op = "eval" -> {"context", "default"}
    [] OTHER -> {"any"}

\* A faulty variant of lua_obj_lua2js_call that raises before it leaves
\* the context; C19 must tell it from the code.
lua_obj_lua2js_call_raisesinside(v) ==
  <<"enter", "conv", "guest", "excconv", "resconv", "err", "exit", "ret">>

lua_obj_lua2js_call_steps(v) ==
  <<"enter", "conv", "guest", "excconv", "resconv", "exit", "err", "ret">>

lua_obj_index_steps(v) ==
  <<"enter", "conv", "guest", "conv", "excconv", "exit", "err", "ret">>

lua_obj_index_steps_part002(v) ==
  <<"enter", "conv", "guestU", "conv", "exit", "ret">>

lua_obj_newindex_steps(v) ==
  <<"enter", "conv", "conv", "guest", "excconv", "exit", "err", "ret">>

lua_obj_newindex_steps_part002(v) ==
  <<"enter", "conv", "conv", "guestI", "exit", "ret">>

lua_obj_tostring_steps(v) ==
  IF v = "error" THEN <<"enter", "guestI", "exit", "ret">>
  ELSE <<"enter", "exit", "ret">>

\* The older snapshots leave through one of two Exit sites.
lua_obj_tostring_steps_part002(v) ==
  IF v = "error" THEN <<"enter", "guestI", "exit", "ret">>
  ELSE <<"enter", "exit", "ret">>

lua_obj_pairs_steps(v) ==
  <<"enter", "guestI", "conv", "guestU", "conv", "exit", "ret">>

lua_obj_ipairs_steps(v) ==
  IF v = "array" THEN <<"enter", "exit", "ret">>
  ELSE <<"enter", "exit", "fail">>

lua_obj_len_steps(v) ==
  <<"enter", "guestU", "conv", "exit", "ret">>

lv8_create_instance_steps(v) ==
  IF v = "prototype"
  THEN <<"enter", "conv", "guest", "excconv", "resconv", "exit", "err", "ret">>
  ELSE <<"fail">>

\* lv8_shallow_copy_from_lua on a table, and on a wrapped guest object
\* (lv8_shallow_copy).
lv8_shallow_copy_from_lua_steps(v) ==
  IF v = "table" THEN <<"conv", "conv">>
  ELSE IF v = "object" THEN <<"enter2", "guestI", "exit2">>
  ELSE <<>>

lv8_create_context_steps(v) ==
  <<"enter">> \o lv8_shallow_copy_from_lua_steps(v) \o <<"exit", "ret">>

lv8_create_context_steps_part002(v) ==
  lv8_shallow_copy_from_lua_steps(v) \o <<"ret">>

lv8_create_context_steps_lv8cpp(v) ==
  IF v = "table" THEN <<"enter", "conv", "conv", "exit", "ret">>
  ELSE IF v = "object" THEN <<"enter", "enter2", "guestI", "exit2", "exit", "ret">>
  ELSE <<"ret">>

\* vm.eval of part_001: the context is entered when one is given.
js_vm_eval_steps(v) ==
  IF v = "context" THEN <<"enter", "guestI", "exit", "ret">>
  ELSE <<"guestI", "ret">>

\* vm.eval of the bindings: the context is mandatory.
js_vm_eval_bindings_steps(v) ==
  <<"enter", "guestI", "exit", "ret">>

EvalForms == {"eval", "eval_bindings"}

Steps(op, v) ==
  CASE op = "call" -> lua_obj_lua2js_call_steps(v)
    [] op = "index" -> IF build = "part_001" THEN lua_obj_index_steps(v)
                       ELSE lua_obj_index_steps_part002(v)
    [] op = "newindex" -> IF build = "part_001" THEN lua_obj_newindex_steps(v)
                          ELSE lua_obj_newindex_steps_part002(v)
    [] op = "tostring" -> IF build = "part_001" THEN lua_obj_tostring_steps(v)
                          ELSE lua_obj_tostring_steps_part002(v)
    [] op = "pairs" -> lua_obj_pairs_steps(v)
    [] op = "ipairs" -> lua_obj_ipairs_steps(v)
    [] op = "len" -> lua_obj_len_steps(v)
    [] op = "newInstance" -> lv8_create_instance_steps(v)
    [] op = "createContext" ->
         IF build = "part_001" THEN lv8_create_context_steps(v)
         ELSE IF build = "part_002" THEN lv8_create_context_steps_part002(v)
         ELSE lv8_create_context_steps_lv8cpp(v)
    [] op = "eval" -> js_vm_eval_steps(v)
    [] op = "eval_bindings" -> js_vm_eval_bindings_steps(v)

\* A call in progress: a handler of the bridge ("op"), guest code ("js"),
\* or a Lua function called from the guest under lua_pcall ("lua").
Frame(kind, op, v, c, c2) ==
  [kind |-> kind, op |-> op, v |-> v, pc |-> 1, ctx |-> c, ctx2 |-> c2,
   base |-> Len(entered), caught |-> FALSE, enters |-> 0, exits |-> 0]

TopFrame == frames[Len(frames)]
PopFrame == SubSeq(frames, 1, Len(frames) - 1)
StepTag == Steps(TopFrame.op, TopFrame.v)[TopFrame.pc]
AtStep(tags) == fatal = "" /\ frames # <<>> /\ TopFrame.kind = "op" /\ StepTag \in tags
Advance(f) == [f EXCEPT !.pc = @ + 1]
InHostCode == IF frames = <<>> THEN TRUE ELSE TopFrame.kind = "lua"

\* Host code (the main chunk, or a Lua function the guest called) invokes
\* an operation of the bridge on an object of context c.
HostCalls(op, v, c, c2) ==
  /\ fatal = "" /\ InHostCode /\ Len(frames) + 2 <= MaxNest
  /\ v \in Variants(op)
  /\ (op = "createContext" /\ v = "object") \/ c2 = c
  /\ frames' = Append(frames, Frame("op", op, v, c, c2))
  /\ UNCHANGED <<entered, done, fatal>>

\* Guest code calls vm.eval.
GuestCallsEval(op, v, c) ==
  /\ fatal = "" /\ frames # <<>> /\ TopFrame.kind = "js"
  /\ build = "part_001" /\ Len(frames) + 2 <= MaxNest
  /\ v \in Variants("eval")
  /\ frames' = Append(frames, Frame("op", op, v, c, c))
  /\ UNCHANGED <<entered, done, fatal>>

StepEnter ==
  /\ AtStep({"enter", "enter2"})
  /\ entered' = Append(entered, IF StepTag = "enter" THEN TopFrame.ctx ELSE TopFrame.ctx2)
  /\ frames' = [frames EXCEPT ![Len(frames)] = [Advance(@) EXCEPT !.enters = @ + 1]]
  /\ UNCHANGED <<done, fatal>>

\* Context::Exit() restores the context entered before; V8 stops the
\* process when the context is not the entered one.
StepExit ==
  /\ AtStep({"exit", "exit2"})
  /\ LET c == IF StepTag = "exit" THEN TopFrame.ctx ELSE TopFrame.ctx2
     IN IF entered = <<>> \/ entered[Len(entered)] # c
        THEN /\ fatal' = "v8: cannot exit non-entered context"
             /\ UNCHANGED <<entered, frames>>
        ELSE /\ entered' = SubSeq(entered, 1, Len(entered) - 1)
             /\ frames' = [frames EXCEPT ![Len(frames)] = [Advance(@) EXCEPT !.exits = @ + 1]]
             /\ fatal' = fatal
  /\ UNCHANGED done

\* The handler is about to call convert_lua2js or convert_js2lua.
Converts ==
  /\ AtStep({"conv", "excconv", "resconv"})
  /\ StepTag = "excconv" => TopFrame.caught
  /\ StepTag = "resconv" => ~TopFrame.caught

StepConvert ==
  /\ AtStep({"conv", "excconv", "resconv"})
  /\ frames' = [frames EXCEPT ![Len(frames)] = Advance(@)]
  /\ UNCHANGED <<entered, done, fatal>>

\* The handler calls into V8: guest code starts to run.
StepGuest ==
  /\ AtStep({"guest", "guestU", "guestI"})
  /\ frames' = Append(frames, Frame("js", "js", "any", 0, 0))
  /\ UNCHANGED <<entered, done, fatal>>

\* Guest code calls a host function (lv8_js2lua_call, or an interceptor):
\* the Lua side runs under lua_pcall.
lv8_js2lua_call ==
  /\ fatal = "" /\ frames # <<>> /\ TopFrame.kind = "js"
  /\ Len(frames) + 1 <= MaxNest
  /\ frames' = Append(frames, Frame("lua", "lua", "any", 0, 0))
  /\ UNCHANGED <<entered, done, fatal>>

\* The Lua function returns or raises; exception() turns a Lua error into
\* a guest exception, so the guest goes on either way.
LuaReturns(err) ==
  /\ fatal = "" /\ frames # <<>> /\ TopFrame.kind = "lua"
  /\ frames' = PopFrame
  /\ UNCHANGED <<entered, done, fatal>>

\* Guest code returns to the handler that started it, with or without an
\* exception.
GuestReturns(thrown) ==
  /\ fatal = "" /\ frames # <<>> /\ TopFrame.kind = "js"
  /\ LET tag == Steps(frames[Len(frames) - 1].op, frames[Len(frames) - 1].v)
                  [frames[Len(frames) - 1].pc]
     IN IF tag = "guestU" /\ thrown
        THEN /\ fatal' = "empty handle dereferenced"
             /\ UNCHANGED frames
        ELSE /\ frames' = [PopFrame EXCEPT ![Len(frames) - 1] =
                             [Advance(@) EXCEPT !.caught = (tag = "guest" /\ thrown)]]
             /\ fatal' = fatal
  /\ UNCHANGED <<entered, done>>

\* The handler is left: by return, or by lua_error() / luaL_error(), which
\* jumps to the nearest lua_pcall.
Leaves(raised) ==
  /\ frames' = PopFrame
  /\ done' = [op |-> TopFrame.op, raised |-> raised, before |-> TopFrame.base,
              after |-> Len(entered), enters |-> TopFrame.enters,
              exits |-> TopFrame.exits]
  /\ UNCHANGED <<entered, fatal>>

StepReturn ==
  /\ AtStep({"ret"})
  /\ Leaves(FALSE)

StepRaise ==
  /\ \/ AtStep({"fail"})
     \/ AtStep({"err"}) /\ TopFrame.caught
  /\ Leaves(TRUE)

StepNoError ==
  /\ AtStep({"err"}) /\ ~TopFrame.caught
  /\ frames' = [frames EXCEPT ![Len(frames)] = Advance(@)]
  /\ UNCHANGED <<entered, done, fatal>>

lvars == <<build, reftab, rec, hidden, hostRefs, guestRefs, abort, last>>

ScopeNext ==
  \/ \E op \in HostOps, c \in Ctxs, c2 \in Ctxs :
       \E v \in Variants(op) : HostCalls(op, v, c, c2) /\ UNCHANGED <<lvars, dvars>>
  \/ \E op \in EvalForms, c \in Ctxs :
       \E v \in Variants("eval") : GuestCallsEval(op, v, c) /\ UNCHANGED <<lvars, dvars>>
  \/ StepEnter /\ UNCHANGED <<lvars, dvars>>
  \/ StepExit /\ UNCHANGED <<lvars, dvars>>
  \/ StepConvert /\ UNCHANGED <<lvars, dvars>>
  \/ StepGuest /\ UNCHANGED <<lvars, dvars>>
  \/ lv8_js2lua_call /\ UNCHANGED <<lvars, dvars>>
  \/ \E err \in BOOLEAN : LuaReturns(err) /\ UNCHANGED <<lvars, dvars>>
  \/ \E thrown \in BOOLEAN : GuestReturns(thrown) /\ UNCHANGED <<lvars, dvars>>
  \/ StepReturn /\ UNCHANGED <<lvars, dvars>>
  \/ StepRaise /\ UNCHANGED <<lvars, dvars>>
  \/ StepNoError /\ UNCHANGED <<lvars, dvars>>

\* The bridge's handlers seen as users of the V8 context stack.
ScopeSpec == Init /\ [][ScopeNext]_vars

C20_ConvertInsideScope ==
  Converts => /\ Len(entered) >= 1
              /\ \E i \in 1..Len(entered) : entered[i] = TopFrame.ctx

\* -------------------------------------------------- codec on values
\* The two converters as the running snapshot defines them.
Lua2Js(b, v) ==
  IF b.build = "part_001" THEN convert_lua2js(b, v) ELSE convert_lua2js_lv8cpp(b, v)

Js2Lua(b, x) ==
  IF b.build = "part_001" THEN convert_js2lua(b, x, FALSE)
  ELSE IF b.build = "part_002" THEN convert_js2lua_part002(b, x)
  ELSE convert_js2lua_lv8cpp(b, x)

CodePoints == {65, 233, 65533}
GuestPrims == {EMPTY, UNDEF, NULLV}
                \cup {JBool(t) : t \in {0, 1}} \cup {JBoolObj(t) : t \in {0, 1}}
                \cup {JNum(n) : n \in Nums} \cup {JNumObj(n) : n \in Nums}
                \cup {JString(u) : u \in SeqsUpTo(CodePoints, MaxStr)}
                \cup {JStringObj(u) : u \in SeqsUpTo(CodePoints, MaxStr)}

\* convert_lua2js applied to a primitive host value.
ToGuest(p) ==
  /\ abort = ""
  /\ LET r == Lua2Js(Cur(<<p>>, "zero"), p)
     IN /\ Commit(r.b)
        /\ last' = [op |-> "lua2js", arg |-> p, res |-> r.v, pend |-> FALSE, prev |-> NIL]
  /\ UNCHANGED <<hostRefs, guestRefs, svars, dvars>>

\* convert_js2lua applied to a primitive guest value (or an empty handle).
ToHost(x) ==
  /\ abort = ""
  /\ LET b == Js2Lua(Cur(<<>>, "zero"), x)
     IN /\ Commit(b)
        /\ last' = [op |-> "js2lua", arg |-> x, res |-> Top(b), pend |-> FALSE, prev |-> NIL]
  /\ UNCHANGED <<hostRefs, guestRefs, svars, dvars>>

\* A primitive host value goes to the guest and comes back.
RoundTrip(p) ==
  /\ abort = ""
  /\ LET r == Lua2Js(Cur(<<p>>, "zero"), p)
         b == Js2Lua(r.b, r.v)
     IN /\ Commit(b)
        /\ last' = [op |-> "roundtrip", arg |-> p, res |-> Top(b), pend |-> FALSE, prev |-> NIL]
  /\ UNCHANGED <<hostRefs, guestRefs, svars, dvars>>

CodecNext ==
  \/ lv8_create_context
  \/ \E i \in 1..MaxHost : HostNewTable(i)
  \/ \E o \in Uds, v \in HostObjs : lua_obj_newindex(o, v)
  \/ \E p \in HostPrims : ToGuest(p)
  \/ \E x \in GuestPrims : ToHost(x)
  \/ \E p \in HostPrims : RoundTrip(p)

\* The converters applied to primitive values, next to a bridge that holds
\* wrappers.
CodecSpec == Init /\ [][CodecNext]_vars

CodecStep == last' # last /\ last'.op \in {"lua2js", "js2lua", "roundtrip"}

\* C27: absent values collapse.  convert_js2lua maps an empty handle,
\* undefined and null to nil without faulting, convert_lua2js maps nil to
\* undefined, and neither step allocates a wrapper record or changes the
\* Reference Table.
C27_AbsentCollapse ==
  [][CodecStep =>
       /\ (last'.op = "js2lua" /\ last'.arg \in {EMPTY, UNDEF, NULLV})
            => (abort' = "" /\ last'.res = NIL /\ reftab' = reftab /\ rec' = rec)
       /\ (last'.op = "lua2js" /\ last'.arg = NIL)
            => (abort' = "" /\ last'.res = UNDEF /\ reftab' = reftab /\ rec' = rec)]_vars

\* null was converted to nil while the Reference Table held a proxy.
C27_NullCollapsed ==
  /\ abort = "" /\ last.op = "js2lua" /\ last.arg = NULLV /\ last.res = NIL
  /\ \E k \in Keys : reftab[k] # NIL

\* C28: primitives cross by value.  A boolean, a number or a string that
\* goes host -> guest -> host comes back equal, and the conversion changes
\* neither the wrapper records nor the Reference Table.
C28_PrimitiveRoundTrip ==
  [][(CodecStep /\ last'.op = "roundtrip" /\ last'.arg # NIL)
       => /\ abort' = "" /\ lua_rawequal(last'.res, last'.arg)
          /\ reftab' = reftab /\ rec' = rec]_vars

\* ------------------------------------------------- values across the bridge
\* A host value that is no primitive (a table, a function) and its guest
\* proxy; a guest object that is no proxy and its host wrapper.
HTable(n) == <<"table", n>>
ProxyOf(v) == <<"proxyof", v>>
Wrapped(x) == <<"wrapped", x>>
JArray(q) == <<"array", q>>
\* Exception::Error(message): a guest Error object, with the "traceback"
\* property do_exc sets on it (EMPTY while it has none).
JError(m, tb) == <<"error", m, tb>>

\* convert_lua2js on values: base types by value, a wrapper unwraps to the
\* guest object it anchors, any other host value gets a proxy.
toGuest(v) ==
  IF IsHostPrimitive(v) \/ v = NIL THEN convert_lua2js_base(v)
  ELSE IF v[1] = "wrapped" THEN v[2]
  ELSE ProxyOf(v)

\* convert_js2lua on values: primitives by value, a proxy gives the host
\* value back, any other guest object gets a wrapper.
toHost(x) ==
  IF IsGuestPrimitive(x) \/ x \in {EMPTY, UNDEF, NULLV} THEN convert_js2lua_base(x)
  ELSE IF x[1] = "proxyof" THEN x[2]
  ELSE Wrapped(x)

\* A table key as the host table stores it: numbers with an integral value
\* are one key whatever their representation.
TKey(h) == IF h[1] = "number" THEN HNum(h[2], "integer") ELSE h

\* lua_tostring of an error value: the bytes of a string, NIL (a NULL
\* pointer) for a value that is neither a string nor a number.
lua_tostring(e) == IF e[1] = "string" THEN e[2] ELSE NIL

\* The outcomes of exception() once lua_pcall has caught the error value e:
\* THROW(lua_tostring(L, -1)) throws Error(message); with a NULL pointer
\* String::NewFromUtf8 reads through it, and the process dies or an Error
\* without the message is thrown.
exception(e) ==
  IF lua_tostring(e) # NIL
    THEN {[fatal |-> "", thrown |-> JError(NewFromUtf8(lua_tostring(e)), EMPTY)]}
    ELSE {[fatal |-> "NewFromUtf8(NULL)", thrown |-> EMPTY],
          [fatal |-> "", thrown |-> JError(<<>>, EMPTY)]}

\* ---------------------------------------------------- sandbox interceptors
\* lv8_sandbox_factory links the host table to the sandbox record only in
\* the latest snapshot; convert_js2lua(holder, sb_extract) fetches it there.
SandboxLinked == build = "part_001"

\* A property name that is an array index reaches the indexed callbacks,
\* which push the index as a number; other names are converted as strings.
IsArrayIndex(k) == k = JString(<<49>>)
HolderKey(k) == TKey(IF IsArrayIndex(k) THEN HNum(1, "float") ELSE toHost(k))

\* What a delete trap answers when exception() reported a host error:
\* lv8_delidx_cb sets false and returns; lv8_delprop_cb sets false, does not
\* return, and sets true.
DeleteFailed(k) == IF IsArrayIndex(k) THEN JBool(0) ELSE JBool(1)

\* Without the link the holder converts to the sandbox userdata, whose
\* __index and __newindex go back into the guest object and so into the
\* interceptor again: the access ends in stack exhaustion, as a dead process
\* or as a guest exception, and never reaches the table.
Unlinked(op, k) ==
  /\ \E o \in {[fatal |-> "stack exhausted", thrown |-> EMPTY],
               [fatal |-> "", thrown |-> JError(<<>>, EMPTY)]} :
       /\ fatal' = o.fatal
       /\ out' = [NoOut EXCEPT !.op = op, !.arg = k, !.thrown = o.thrown,
                    !.res = IF op = "delete" /\ o.fatal = "" THEN <<DeleteFailed(k[1])>>
                            ELSE <<>>]
  /\ UNCHANGED <<tab, native, glob, raises>>

\* The host program stores into the table the sandbox was created over.
HostSet(h, v) ==
  /\ fatal = "" /\ tab[h] # v
  /\ tab' = [tab EXCEPT ![h] = v]
  /\ UNCHANGED <<lvars, entered, frames, done, fatal, native, glob, raises, out>>

\* The host program gives the table a metatable whose __index and
\* __newindex raise e (NIL: no metatable).
HostArm(e) ==
  /\ fatal = "" /\ raises # e
  /\ raises' = e
  /\ UNCHANGED <<lvars, entered, frames, done, fatal, tab, native, glob, out>>

\* lv8_getprop_cb / lv8_getidx_cb: holder[k] by a protected lua_gettable.
lv8_getprop_cb(k) ==
  /\ fatal = ""
  /\ IF ~SandboxLinked THEN Unlinked("get", <<k>>)
     ELSE IF raises # NIL /\ tab[HolderKey(k)] = NIL
       THEN \E o \in exception(raises) :
              /\ fatal' = o.fatal
              /\ out' = [NoOut EXCEPT !.op = "get", !.arg = <<k>>, !.thrown = o.thrown]
              /\ UNCHANGED <<tab, native, glob, raises>>
       ELSE /\ out' = [NoOut EXCEPT !.op = "get", !.arg = <<k>>,
                                    !.res = <<toGuest(tab[HolderKey(k)])>>]
            /\ UNCHANGED <<fatal, tab, native, glob, raises>>
  /\ UNCHANGED <<lvars, entered, frames, done>>

\* lv8_setprop_cb / lv8_setidx_cb: holder[k] = v by a protected
\* lua_settable.  On success the callback sets no return value, so the
\* engine takes the store as not intercepted and also stores the property
\* in the object itself.
lv8_setprop_cb(k, x) ==
  /\ fatal = ""
  /\ IF ~SandboxLinked THEN Unlinked("set", <<k, x>>)
     ELSE IF raises # NIL /\ tab[HolderKey(k)] = NIL
       THEN \E o \in exception(raises) :
              /\ fatal' = o.fatal
              /\ out' = [NoOut EXCEPT !.op = "set", !.arg = <<k, x>>, !.thrown = o.thrown]
              /\ UNCHANGED <<tab, native, glob, raises>>
       ELSE /\ tab' = [tab EXCEPT ![HolderKey(k)] = toHost(x)]
            /\ native' = [native EXCEPT ![k] = x]
            /\ out' = [NoOut EXCEPT !.op = "set", !.arg = <<k, x>>]
            /\ UNCHANGED <<fatal, glob, raises>>
  /\ UNCHANGED <<lvars, entered, frames, done>>

\* lv8_delprop_cb / lv8_delidx_cb: holder[k] = nil by a protected
\* lua_settable; the callback answers true, so the object's own property
\* is left alone.
lv8_delprop_cb(k) ==
  /\ fatal = ""
  /\ IF ~SandboxLinked THEN Unlinked("delete", <<k>>)
     ELSE IF raises # NIL /\ tab[HolderKey(k)] = NIL
       THEN \E o \in exception(raises) :
              /\ fatal' = o.fatal
              /\ out' = [NoOut EXCEPT !.op = "delete", !.arg = <<k>>, !.thrown = o.thrown,
                           !.res = IF o.fatal = "" THEN <<DeleteFailed(k)>> ELSE <<>>]
              /\ UNCHANGED <<tab, native, glob, raises>>
       ELSE /\ tab' = [tab EXCEPT ![HolderKey(k)] = NIL]
            /\ out' = [NoOut EXCEPT !.op = "delete", !.arg = <<k>>, !.res = <<JBool(1)>>]
            /\ UNCHANGED <<fatal, native, glob, raises>>
  /\ UNCHANGED <<lvars, entered, frames, done>>

\* lv8_enumprop_cb: the keys lua_next finds in the table, converted; the
\* engine adds the object's own properties to what the callback returns.
lv8_enumprop_cb ==
  /\ fatal = ""
  /\ IF ~SandboxLinked THEN Unlinked("enumerate", <<>>)
     ELSE /\ out' = [NoOut EXCEPT !.op = "enumerate",
                       !.keys = {toGuest(h) : h \in {h \in HKeys : tab[h] # NIL}}
                                  \cup {k \in GProps : native[k] # EMPTY}]
          /\ UNCHANGED <<fatal, tab, native, glob, raises>>
  /\ UNCHANGED <<lvars, entered, frames, done>>

\* The values the host program stores and the guest program writes.
TabVals == {NIL, HNum(1, "integer"), HStr(<<65>>)}
GuestVals == {JNum(2), JString(<<65>>)}
\* The error values a metamethod or a host function raises: a message, a
\* table, and the wrapper of a guest exception that crossed before.
ErrVals == {HStr(<<65>>), HTable(1), Wrapped(JError(<<65>>, HStr(<<65>>)))}

SandboxNext ==
  \/ \E h \in HKeys, v \in TabVals : HostSet(h, v)
  \/ \E e \in ErrVals \cup {NIL} : HostArm(e)
  \/ \E k \in GProps : lv8_getprop_cb(k)
  \/ \E k \in GProps, x \in GuestVals : lv8_setprop_cb(k, x)
  \/ \E k \in GProps : lv8_delprop_cb(k)
  \/ lv8_enumprop_cb

\* Guest code working on the global of a sandbox created over a host table.
SandboxSpec == Init /\ [][SandboxNext]_vars

\* C21: sandbox interception.  A guest read of k yields toGuest(T[k]), a
\* guest write makes T[k] = toHost(v), a guest delete removes k from T, an
\* enumeration yields exactly the keys of T, and the guest object's own
\* storage is not involved.
C21_SandboxInterception ==
  /\ fatal = ""
  /\ \A k \in GProps : native[k] = EMPTY
  /\ out.op \in {"get", "set", "delete", "enumerate"} /\ raises = NIL
       => /\ out.thrown = EMPTY
          /\ out.op = "get" => out.res = <<toGuest(tab[HolderKey(out.arg[1])])>>
          /\ out.op = "set" => tab[HolderKey(out.arg[1])] = toHost(out.arg[2])
          /\ out.op = "delete" => tab[HolderKey(out.arg[1])] = NIL
          /\ out.op = "enumerate"
               => out.keys = {toGuest(h) : h \in {h \in HKeys : tab[h] # NIL}}

\* C22: a host error during a trapped access becomes a guest exception.
\* When the table's metamethod raises during a trapped get, set or delete,
\* the process survives and an exception is left pending for the guest
\* caller, carrying the message when the error value has one.
C22_HostErrorReachesGuest ==
  [][(/\ out'.op \in {"get", "set", "delete"}
      /\ (out' # out \/ fatal' # fatal)
      /\ raises # NIL /\ tab[HolderKey(out'.arg[1])] = NIL)
       => /\ fatal' = ""
          /\ out'.thrown # EMPTY
          /\ lua_tostring(raises) # NIL
               => out'.thrown = JError(NewFromUtf8(lua_tostring(raises)), EMPTY)]_vars

\* ----------------------------------------------------- calls with values
MaxArgs == 2
\* The arguments guest code passes, the values host code passes and returns.
GuestArgs == {JNum(1), JString(<<65>>), JBool(1)}
HostArgs == {HNum(1, "integer"), HStr(<<65>>)}
\* What a guest function throws: an Error, a string, undefined, null.
Throwables == {JError(<<65>>, EMPTY), JString(<<65>>), UNDEF, NULLV}
\* What a guest function returns: a primitive, nothing, an array.
GuestResults == {JNum(1), UNDEF, JArray(<<JBool(1), JString(<<65>>)>>)}

ToHostAll(q) == [i \in 1..Len(q) |-> toHost(q[i])]
ToGuestAll(q) == [i \in 1..Len(q) |-> toGuest(q[i])]

\* luaL_traceback: a host string made of the "stack" text and the host
\* call stack.
luaL_traceback == HStr(<<116>>)

\* Value::ToObject of a thrown value: an object stays itself, a string
\* becomes a String object, undefined and null give an empty handle.
ToObject(t) ==
  IF t \in {UNDEF, NULLV} THEN EMPTY
  ELSE IF t[1] = "jstring" THEN JStringObj(t[2])
  ELSE t

\* do_exc on the caught value t: the exception as an object, its
\* "traceback" property set, converted to a host value.  Setting a property
\* on a String object leaves convert_js2lua a plain host string; an empty
\* handle is dereferenced.
do_exc(t) ==
  IF ToObject(t) = EMPTY THEN [fatal |-> "empty handle dereferenced", err |-> NIL]
  ELSE IF ToObject(t)[1] = "error"
    THEN [fatal |-> "", err |-> toHost(JError(t[2], toGuest(luaL_traceback)))]
  ELSE [fatal |-> "", err |-> toHost(ToObject(t))]

\* What the callee does with the call: it returns values, it fails with a
\* value of its own side, or it calls back across the bridge into a
\* function that fails.
HostBodies ==
  {[kind |-> "return", val |-> q] : q \in SeqsUpTo(HostArgs, MaxArgs)}
    \cup {[kind |-> "raise", val |-> e] : e \in {HStr(<<65>>), HTable(1)}}
    \cup {[kind |-> "callguest", val |-> t] : t \in {JError(<<65>>, EMPTY)}}
GuestBodies ==
  {[kind |-> "return", val |-> x] : x \in GuestResults}
    \cup {[kind |-> "throw", val |-> t] : t \in Throwables}
    \cup {[kind |-> "callhost", val |-> e] : e \in {HStr(<<65>>)}}

\* lv8_js2lua_call: guest code calls the proxy of a host function.  The
\* arguments are converted in order and the function runs under
\* exception(); its results, however many, are put into a new array.
lv8_js2lua_call_values(args, body) ==
  /\ fatal = ""
  /\ IF body.kind = "return"
       THEN /\ out' = [NoOut EXCEPT !.op = "js2lua", !.arg = <<args, body>>,
                          !.got = ToHostAll(args),
                          !.res = <<JArray(ToGuestAll(body.val))>>]
            /\ fatal' = fatal
       ELSE \E d \in {IF body.kind = "raise" THEN [fatal |-> "", err |-> body.val]
                      ELSE do_exc(body.val)} :
              IF d.fatal # ""
                THEN /\ fatal' = d.fatal
                     /\ out' = [NoOut EXCEPT !.op = "js2lua", !.arg = <<args, body>>,
                                  !.got = ToHostAll(args)]
                ELSE \E o \in exception(d.err) :
                       /\ fatal' = o.fatal
                       /\ out' = [NoOut EXCEPT !.op = "js2lua", !.arg = <<args, body>>,
                                    !.got = ToHostAll(args),
                                    !.res = IF o.fatal = "" THEN <<JBool(0)>> ELSE <<>>,
                                    !.thrown = o.thrown]
  /\ UNCHANGED <<lvars, entered, frames, done, tab, native, glob, raises>>

\* The end of a host -> guest call: the guest function's value is converted
\* and returned as the one result, or what do_exc left is raised.
FromGuest(op, args, got, body) ==
  IF body.kind = "return"
    THEN /\ out' = [NoOut EXCEPT !.op = op, !.arg = <<args, body>>, !.got = got,
                       !.res = <<toHost(body.val)>>]
         /\ fatal' = fatal
    ELSE \E o \in (IF body.kind = "throw" THEN {[fatal |-> "", thrown |-> body.val]}
                   ELSE exception(body.val)) :
           IF o.fatal # ""
             THEN /\ fatal' = o.fatal
                  /\ out' = [NoOut EXCEPT !.op = op, !.arg = <<args, body>>, !.got = got]
             ELSE /\ fatal' = do_exc(o.thrown).fatal
                  /\ out' = [NoOut EXCEPT !.op = op, !.arg = <<args, body>>, !.got = got,
                               !.err = do_exc(o.thrown).err]

\* lua_obj_lua2js_call: host code calls the wrapper of a guest function
\* with the global as receiver.
lua_obj_lua2js_call_values(args, body) ==
  /\ fatal = ""
  /\ FromGuest("lua2js", args, ToGuestAll(args), body)
  /\ UNCHANGED <<lvars, entered, frames, done, tab, native, glob, raises>>

\* The wrapper metatable lua_getmetatable leaves on the stack.
UV_OBJMT == HTable(0)

\* lv8_create_instance: the argument check pushes the constructor's
\* metatable and leaves it, so argc = lua_gettop(L) - 1 counts it and the
\* last element of argv is its proxy.
lv8_create_instance_values(args, body) ==
  /\ fatal = ""
  /\ FromGuest("new", args, ToGuestAll(args \o <<UV_OBJMT>>), body)
  /\ UNCHANGED <<lvars, entered, frames, done, tab, native, glob, raises>>

CallNext ==
  \/ \E args \in SeqsUpTo(GuestArgs, MaxArgs), body \in HostBodies :
       lv8_js2lua_call_values(args, body)
  \/ \E args \in SeqsUpTo(HostArgs, MaxArgs), body \in GuestBodies :
       lua_obj_lua2js_call_values(args, body)
  \/ \E args \in SeqsUpTo(HostArgs, MaxArgs), body \in GuestBodies :
       lv8_create_instance_values(args, body)

\* Calls across the bridge, seen by the values that cross.
CallSpec == Init /\ [][CallNext]_vars

\* C23: return packing of a guest -> host call.  Several host results come
\* as one array in order, one result comes as itself, no result comes as
\* undefined.
C23_ReturnPacking ==
  (out.op = "js2lua" /\ out.arg[2].kind = "return")
    => out.res = <<IF Len(out.arg[2].val) = 0 THEN UNDEF
                   ELSE IF Len(out.arg[2].val) = 1 THEN toGuest(out.arg[2].val[1])
                   ELSE JArray(ToGuestAll(out.arg[2].val))>>

\* C24: call round-trip.  The host function gets exactly the guest's
\* arguments, converted, in order; and a guest function that returns an
\* array hands the host caller the array's elements as its results.
C24_CallRoundTrip ==
  /\ out.op = "js2lua" => out.got = ToHostAll(out.arg[1])
  /\ (out.op = "lua2js" /\ out.arg[2].kind = "return" /\ out.arg[2].val[1] = "array")
       => out.res = ToHostAll(out.arg[2].val[2])

\* C25: exception round-trip.  When the guest function called from the host
\* throws, the call raises one host error and returns nothing; the error
\* carries the thrown message and the traceback.
C25_ExceptionRoundTrip ==
  (out.op \in {"lua2js", "new"} /\ out.arg[2].kind = "throw")
    => /\ fatal = "" /\ out.res = <<>> /\ out.err # NIL
       /\ out.arg[2].val[1] = "error"
            => out.err = Wrapped(JError(out.arg[2].val[2], toGuest(luaL_traceback)))
       /\ out.arg[2].val[1] = "jstring"
            => out.err[1] = "wrapped" /\ out.err[2][3] = toGuest(luaL_traceback)

\* C26: exactly-once translation.  Through nested crossings the caller gets
\* an exception of its own side that carries the original message.
C26_ExactlyOnce ==
  /\ (out.op = "js2lua" /\ out.arg[2].kind = "callguest")
       => fatal = "" /\ out.thrown = JError(out.arg[2].val[2], EMPTY)
  /\ (out.op = "lua2js" /\ out.arg[2].kind = "callhost")
       => fatal = ""
            /\ out.err = Wrapped(JError(NewFromUtf8(out.arg[2].val[2]), toGuest(luaL_traceback)))

\* C30: newInstance passes the constructor exactly the caller's arguments.
C30_ConstructorArgs ==
  out.op = "new" => out.got = ToGuestAll(out.arg[1])

\* ------------------------------------------- createContext with initializer
\* What an initializer table holds: primitives and a table of its own.
InitVals == TabVals \cup {HTable(1)}

\* Object::Set(key, value): the property a key names.  A number and the
\* string of its digits name the same property.
PropName(x) == IF x[1] = "jnumber" THEN JString(<<49>>) ELSE x

\* The keys lua_next finds in the table that name the property p.
KeysOf(p) == {h \in HKeys : tab[h] # NIL /\ PropName(toGuest(h)) = p}

\* convert_lua2js of a value that is no base type instantiates the proxy
\* template, which takes an entered context; the middle snapshot copies
\* without Enter.
CopyNeedsContext == \E h \in HKeys : tab[h] # NIL /\ ~IsHostPrimitive(tab[h])

\* lv8_create_context with the table as initializer (or with nil): a new
\* context whose global gets dst->Set(convert_lua2js(key),
\* convert_lua2js(value)) for every pair lua_next yields, in the order
\* lua_next yields them: of two keys that name one property the later wins.
lv8_create_context_values(init) ==
  /\ fatal = ""
  /\ IF init = NIL
       THEN /\ glob' = [p \in GProps |-> EMPTY]
            /\ fatal' = fatal
       ELSE IF build = "part_002" /\ CopyNeedsContext
         THEN /\ fatal' = "empty handle dereferenced"
              /\ glob' = [p \in GProps |-> EMPTY]
         ELSE /\ fatal' = fatal
              /\ \E g \in [GProps -> {toGuest(v) : v \in InitVals} \cup {EMPTY}] :
                   /\ \A p \in GProps :
                        IF KeysOf(p) = {} THEN g[p] = EMPTY
                        ELSE \E h \in KeysOf(p) : g[p] = toGuest(tab[h])
                   /\ glob' = g
  /\ out' = [NoOut EXCEPT !.op = "context", !.arg = <<init>>]
  /\ UNCHANGED <<lvars, entered, frames, done, tab, native, raises>>

\* Guest code stores into the global of the created context.
GlobSet(p, x) ==
  /\ fatal = "" /\ out.op \in {"context", "globset"} /\ glob[p] # x
  /\ glob' = [glob EXCEPT ![p] = x]
  /\ out' = [NoOut EXCEPT !.op = "globset", !.arg = <<p, x>>]
  /\ UNCHANGED <<lvars, entered, frames, done, fatal, tab, native, raises>>

ContextNext ==
  \/ \E h \in HKeys, v \in InitVals : HostSet(h, v)
  \/ \E init \in {NIL, HTable(0)} : lv8_create_context_values(init)
  \/ \E p \in GProps, x \in GuestVals : GlobSet(p, x)

\* A host table used as the initializer of new contexts.
ContextSpec == Init /\ [][ContextNext]_vars

\* C29: createContext makes a shallow copy.  After the call the global
\* holds toGuest(t[k]) under toGuest(k) for exactly the keys of t, t is
\* unchanged, with nil nothing is copied, and later writes to the table or
\* to the global leave the other alone.
C29_ShallowCopy ==
  [][/\ (out'.op = "context" /\ (out' # out \/ glob' # glob \/ fatal' # fatal))
          => /\ fatal' = "" /\ tab' = tab
             /\ out'.arg[1] = NIL => \A p \in GProps : glob'[p] = EMPTY
             /\ out'.arg[1] # NIL
                  => /\ \A h \in HKeys : tab[h] # NIL
                          => glob'[PropName(toGuest(h))] = toGuest(tab[h])
                     /\ \A p \in GProps : KeysOf(p) = {} => glob'[p] = EMPTY
     /\ tab' # tab => glob' = glob
     /\ (out'.op = "globset" /\ glob' # glob) => tab' = tab]_vars

\* ------------------------------------------------ host stack discipline
\* convert_js2lua called with guest value x on a host stack that already
\* holds one value; the outcome records how much deeper the stack is when
\* it returns.
convert_js2lua_depth(x, sb_extract) ==
  /\ abort = "" /\ NumFree(Cur(<<>>, "zero")) >= 1
  /\ x \in guestRefs \cup GuestPlain \cup {UNDEF, JBool(1), JString(<<65>>)}
  /\ sb_extract => build = "part_001"
  /\ \E ub \in UBOutcomes :
       \E b \in {IF build = "part_001" THEN convert_js2lua(Cur(<<STR>>, ub), x, sb_extract)
                 ELSE Js2Lua(Cur(<<STR>>, ub), x)} :
         /\ Commit(b)
         /\ hostRefs' = hostRefs \cup Returned(b)
         /\ out' = [NoOut EXCEPT !.op = "convert", !.arg = <<x, sb_extract>>,
                                 !.res = <<Len(b.stack) - 1>>]
  /\ UNCHANGED <<guestRefs, last, svars, tab, native, glob, raises>>

DepthNext ==
  \/ lv8_create_context
  \/ \E v \in HostObjs : lv8_create_sandbox(v)
  \/ \E o \in Uds, v \in HostObjs : lua_obj_newindex(o, v)
  \/ \E i \in 1..MaxHost : HostNewTable(i)
  \/ \E v \in HostObjs : HostDrop(v)
  \/ \E r \in Recs : LuaGCSeparate(r)
  \/ \E r \in Recs : LuaFinalize(r)
  \/ \E x \in GuestPlain \cup GuestProx \cup {UNDEF, JBool(1), JString(<<65>>)},
        sb_extract \in BOOLEAN : convert_js2lua_depth(x, sb_extract)

\* Conversions guest -> host while wrappers are created, dropped and
\* finalized on the host.
DepthSpec == Init /\ [][DepthNext]_vars

\* C31: convert_js2lua pushes exactly one value, whatever it converts.
C31_PushesOne ==
  (out.op = "convert" /\ abort = "") => out.res = <<1>>

\* ---------------------------------------------- the traps' stack effect
\* The host stack as a sequence of values.  lua_settop(L, n): a negative n
\* counts from the top, and lua_pop(L, n) is lua_settop(L, -(n)-1).
MaxDepth == 2
StackUnderflow == <<"underflow">>
lua_settop(s, n) ==
  IF s = StackUnderflow THEN s
  ELSE IF n >= 0 THEN [i \in 1..n |-> IF i <= Len(s) THEN s[i] ELSE NIL]
  ELSE IF Len(s) + n + 1 < 0 THEN StackUnderflow
  ELSE SubSeq(s, 1, Len(s) + n + 1)
lua_pop_macro(s, n) == lua_settop(s, -n - 1)

\* lua_pcall(L, narg, nret, 0) on a stack that ends with the function and
\* its narg arguments: they are replaced by the results, or by the error
\* value err when the call raised it.
lua_pcall(s, narg, results, err) ==
  lua_settop(s, -narg - 2) \o (IF err = NIL THEN results ELSE <<err>>)

\* exception(): after a failed lua_pcall the error value is popped.
exception_stack(s, narg, results, err) ==
  IF err = NIL THEN lua_pcall(s, narg, results, err)
  ELSE lua_pop_macro(lua_pcall(s, narg, results, err), 1)

\* The host function gettab / settab push, the table a holder converts to.
CFUNC == <<"cfunction", 0>>
HOLDER == HTable(0)

\* Each trap as a function of the stack s it finds and of the error err the
\* host raises in the protected call (NIL: none).
lv8_getidx_cb_stack(s, err) ==
  LET c == exception_stack(s \o <<CFUNC, HOLDER, HNum(1, "float")>>, 2, <<HStr(<<65>>)>>, err)
  IN IF err # NIL THEN c ELSE lua_pop_macro(c, 1)

lv8_setidx_cb_stack(s, err) ==
  LET c == exception_stack(s \o <<CFUNC, HOLDER, HNum(1, "float"), HStr(<<65>>)>>, 3, <<>>, err)
  IN IF err # NIL THEN c ELSE lua_pop_macro(c, 1)

lv8_delidx_cb_stack(s, err) ==
  exception_stack(s \o <<CFUNC, HOLDER, HNum(1, "float"), NIL>>, 3, <<>>, err)

lv8_getprop_cb_stack(s, err) ==
  LET c == exception_stack(s \o <<CFUNC, HOLDER, HStr(<<65>>)>>, 2, <<HStr(<<65>>)>>, err)
  IN IF err # NIL THEN c ELSE lua_pop_macro(c, -1)

lv8_setprop_cb_stack(s, err) ==
  exception_stack(s \o <<CFUNC, HOLDER, HStr(<<65>>), HStr(<<65>>)>>, 3, <<>>, err)

lv8_delprop_cb_stack(s, err) ==
  exception_stack(s \o <<CFUNC, HOLDER, HStr(<<65>>), NIL>>, 3, <<>>, err)

\* lv8_enumprop_cb over a table: lua_next replaces the key by the next key
\* and its value, the value is popped, and the last lua_next pops the key.
RECURSIVE lua_next_loop(_, _)
lua_next_loop(s, n) ==
  IF n = 0 THEN lua_pop_macro(s, 1)
  ELSE lua_next_loop(lua_pop_macro(lua_pop_macro(s, 1) \o <<HStr(<<65>>), NIL>>, 1), n - 1)
lv8_enumprop_cb_stack(s, n) ==
  lua_pop_macro(lua_next_loop(s \o <<HOLDER, NIL>>, n), 1)

\* lv8_js2lua_call with one argument and a host function of nres results.
lv8_js2lua_call_stack(s, nres, err) ==
  LET c == exception_stack(s \o <<CFUNC, HStr(<<65>>)>>, 1, [i \in 1..nres |-> HStr(<<65>>)], err)
  IN IF err # NIL THEN c ELSE lua_pop_macro(c, nres)

Traps == {"getidx", "setidx", "delidx", "getprop", "setprop", "delprop", "enumprop", "call"}
TrapStack(t, s, n, err) ==
  IF t = "getidx" THEN lv8_getidx_cb_stack(s, err)
  ELSE IF t = "setidx" THEN lv8_setidx_cb_stack(s, err)
  ELSE IF t = "delidx" THEN lv8_delidx_cb_stack(s, err)
  ELSE IF t = "getprop" THEN lv8_getprop_cb_stack(s, err)
  ELSE IF t = "setprop" THEN lv8_setprop_cb_stack(s, err)
  ELSE IF t = "delprop" THEN lv8_delprop_cb_stack(s, err)
  ELSE IF t = "enumprop" THEN lv8_enumprop_cb_stack(s, n)
  ELSE lv8_js2lua_call_stack(s, n, err)

\* Guest code, running under a host call whose stack is s, triggers trap t.
Trap(t, s, n, err) ==
  /\ fatal = ""
  /\ t \in {"getidx", "setidx", "delidx", "getprop", "setprop", "delprop"} => n = 0
  /\ t = "enumprop" => err = NIL
  /\ out' = [NoOut EXCEPT !.op = t, !.arg = <<s, n, err>>, !.res = <<TrapStack(t, s, n, err)>>]
  /\ fatal' = IF TrapStack(t, s, n, err) = StackUnderflow THEN "host stack underflow" ELSE ""
  /\ UNCHANGED <<lvars, entered, frames, done, tab, native, glob, raises>>

\* lv8_enumprop_cb when the holder converts to a value that is no table:
\* the value is popped and the exception thrown, and the function goes on
\* (there is no return): lua_pushnil, then lua_next(L, -2) on whatever lies
\* under the nil.  On a table of n keys that is a traversal; on anything
\* else, or on an empty stack, lua_next has no defined behaviour and either
\* kills the process or finds nothing.  The last lua_pop takes one more.
OnlyTables == <<"jstring", "Only lua tables can be enumerated">>
RECURSIVE next_calls(_)
next_calls(n) == IF n = 0 THEN <<"lua_next">> ELSE <<"lua_next", "lua_pop">> \o next_calls(n - 1)
lv8_enumprop_cb_nontable(s, n, dies) ==
  /\ fatal = ""
  /\ LET under == IF Len(s) = 0 THEN NIL ELSE s[Len(s)]
         c == lua_pop_macro(s \o <<Ud(1)>>, 1)
     IN /\ n > 0 => (under = HTable(1) /\ ~dies)
        /\ dies => under # HTable(1)
        /\ IF dies
           THEN /\ fatal' = "lua_next on a value that is no table"
                /\ out' = [NoOut EXCEPT !.op = "enumprop_nontable", !.arg = <<s, n>>,
                              !.thrown = OnlyTables,
                              !.got = <<"lua_pushnil", "lua_next">>]
           ELSE /\ fatal' = IF Len(s) = 0 THEN "host stack underflow" ELSE ""
                /\ out' = [NoOut EXCEPT !.op = "enumprop_nontable", !.arg = <<s, n>>,
                              !.thrown = OnlyTables,
                              !.got = <<"lua_pushnil">> \o next_calls(n) \o <<"lua_pop">>,
                              !.res = <<lua_pop_macro(lua_next_loop(c \o <<NIL>>, n), 1)>>]
  /\ UNCHANGED <<lvars, entered, frames, done, tab, native, glob, raises>>

TrapNext ==
  \/ \E t \in Traps, s \in SeqsUpTo({HTable(1), HStr(<<65>>)}, MaxDepth), n \in 0..2,
        err \in {NIL, HStr(<<65>>)} : Trap(t, s, n, err)
  \/ \E s \in SeqsUpTo({HTable(1), HStr(<<65>>)}, MaxDepth), n \in 0..2, dies \in BOOLEAN :
        lv8_enumprop_cb_nontable(s, n, dies)

\* The traps run under host calls with values on the host stack.
TrapSpec == Init /\ [][TrapNext]_vars

\* C32: every trap leaves the host stack as it found it, whether the
\* protected host call succeeds or raises.
C32_TrapsBalanced ==
  out.op \in Traps => out.res = <<out.arg[1]>>

\* C33: a context's handle is weak exactly while it is PendingRelease.  In
\* every reachable state a Context/Sandbox wrapper's context handle has an
\* armed weak registration iff resurrected = 1 and jscollected = 0.
C33_WeakIffPending ==
  \A c \in Recs : IsContext(c) => (rec[c].context = "weak" <=> PendingRelease(c))

\* A context the host dropped is PendingRelease with its handle weak, right
\* after its finalizer ran.
C33_PendingIsWeak ==
  /\ abort = "" /\ last.op = "gc"
  /\ \E c \in Recs : PendingRelease(c) /\ rec[c].context = "weak" /\ last.arg = Ud(c)

\* C34: a guest-object wrapper the host holds is alive.  Every wrapper of a
\* plain guest object that host code holds, however it was obtained, has
\* not been separated for finalization, finalized or freed, and its handle
\* anchors the guest object.
C34_HeldWrapperAlive ==
  \A r \in Recs :
    (Ud(r) \in hostRefs /\ rec[r].st # "unalloc" /\ rec[r].type = LV8_OBJ_JS)
      => rec[r].ud = "live" /\ rec[r].st # "freed" /\ rec[r].object = "strong"

\* The host imported a guest object in the window between the separation
\* of its dropped wrapper and the run of the wrapper's finalizer: the tag
\* still names the wrapper and the import hands out no wrapper.
C34_ImportInWindow ==
  /\ abort = "" /\ last.op = "index" /\ last.arg \in GuestPlain /\ last.res = NIL
  /\ hidden[last.arg[2]] # 0
  /\ rec[hidden[last.arg[2]]].ud = "tobefnz" /\ rec[hidden[last.arg[2]]].object = "strong"

\* C35: reachable guest proxies are tracked.  For every HostProxy and every
\* Sandbox global that guest code holds, the Reference Table entry under
\* the wrapper key is the host object it stands for.
C35_ReachableProxyTracked ==
  /\ \A r \in Recs : (Proxy(r) \in guestRefs /\ IsHostProxy(r) /\ rec[r].st # "freed")
                       => Registered(r) = rec[r].host
  /\ \A c \in Recs : (Gl(c) \in guestRefs /\ rec[c].st # "unalloc" /\ rec[c].type = LV8_OBJ_SB)
                       => Registered(c) = rec[c].host

\* C36: a trapped delete answers false when the host raised.  Whenever the
\* host raises during the delete of a named or an indexed property the trap
\* answers false, and it answers true only when the assignment of nil
\* succeeded.
C36_DeleteReportsFailure ==
  (out.op = "delete" /\ fatal = "")
    => /\ out.thrown # EMPTY => out.res = <<JBool(0)>>
       /\ out.res = <<JBool(1)>> => out.thrown = EMPTY

\* C37: the enumerate trap on a value that is no table throws and stops.
\* It leaves the exception 'Only lua tables can be enumerated' pending and
\* makes no host-stack call after throwing.
C37_EnumerateStops ==
  out.op = "enumprop_nontable" => (out.thrown = OnlyTables /\ out.got = <<>>)

\* ------------------------------------------------- ipairs over an Array
\* The host iterates a guest array a with `for i, v in ipairs(a)`.
\* lua_obj_ipairs returns js_array_ipairs_aux, the array and nil; the
\* generic for calls the iterator with the array and the control value,
\* stops when its first result is nil, and otherwise takes the first result
\* as the next control value.
MaxArr == 2
ArrayUd(a) == <<"udarray", a>>
lua_tonumber(v) == IF v[1] = "number" THEN v[2] ELSE 0

\* js_array_ipairs_aux on the stack <<array, control>>: the state after the
\* call and the nret values it returns from the top of its stack.  toHost is
\* what converting the element alone, in the state of the call, leaves on top.
js_array_ipairs_aux(b, a, control) ==
  LET b0 == [b EXCEPT !.stack = <<ArrayUd(a), control>>]
      idx == IF control = NIL THEN 0 ELSE lua_tonumber(control) + 1
  IN IF idx < Len(a)
     THEN [b |-> Js2Lua(lua_push(b0, HNum(idx, "integer")), a[idx + 1]), nret |-> 2,
           toHost |-> Top(Js2Lua([b EXCEPT !.stack = <<>>], a[idx + 1]))]
     ELSE [b |-> b0, nret |-> 0, toHost |-> NIL]

\* The generic for: the pairs the loop body sees, and whether the loop ended
\* within fuel calls of the iterator (a one-element set holding the outcome).
RECURSIVE ipairs_loop(_, _, _, _)
ipairs_loop(b, a, control, fuel) ==
  IF fuel = 0 THEN {[b |-> b, pairs |-> <<>>, elems |-> <<>>, ended |-> FALSE]}
  ELSE UNION {
    IF ~Ok(r.b) THEN {[b |-> r.b, pairs |-> <<>>, elems |-> <<>>, ended |-> FALSE]}
    ELSE IF r.nret = 0 \/ r.b.stack[Len(r.b.stack) - 1] = NIL
      THEN {[b |-> r.b, pairs |-> <<>>, elems |-> <<>>, ended |-> TRUE]}
    ELSE {[b |-> rest.b,
           pairs |-> <<<<r.b.stack[Len(r.b.stack) - 1], r.b.stack[Len(r.b.stack)]>>>>
                       \o rest.pairs,
           elems |-> <<r.toHost>> \o rest.elems,
           ended |-> rest.ended] :
            rest \in ipairs_loop(r.b, a, r.b.stack[Len(r.b.stack) - 1], fuel - 1)} :
    r \in {js_array_ipairs_aux(b, a, control)}}

\* The loop body lets go of the values it is handed.
lua_obj_ipairs(a) ==
  /\ abort = ""
  /\ \A i \in 1..Len(a) : a[i] \in guestRefs \cup {UNDEF, JNum(2)}
  /\ \E ub \in UBOutcomes :
       \E r \in ipairs_loop(Cur(<<>>, ub), a, NIL, Len(a) + 2) :
         /\ Commit(r.b)
         /\ out' = [NoOut EXCEPT !.op = "ipairs", !.arg = a, !.res = r.pairs,
                                 !.got = r.elems, !.err = r.ended]
  /\ UNCHANGED <<hostRefs, guestRefs, last, svars, tab, native, glob, raises>>

IpairsNext ==
  \/ lv8_create_context
  \/ \E o \in Uds, v \in HostObjs : lua_obj_newindex(o, v)
  \/ \E v \in HostObjs : HostDrop(v)
  \/ \E r \in Recs : LuaGCSeparate(r)
  \/ \E r \in Recs : LuaFinalize(r)
  \/ \E a \in SeqsUpTo({UNDEF, JNum(2)} \cup {Gl(r) : r \in Recs}, MaxArr) : lua_obj_ipairs(a)

\* The host iterates guest arrays whose elements are numbers, undefined and
\* the globals of contexts the host created and may have dropped.
IpairsSpec == Init /\ [][IpairsNext]_vars

\* C38: ipairs over a guest array of length n yields the indices 0..n-1 in
\* order, each with the host value of the element at that index, and ends
\* after n steps; an undefined element does not end it early.
C38_IpairsYieldsAll ==
  (out.op = "ipairs" /\ abort = "")
    => /\ out.err = TRUE
       /\ Len(out.res) = Len(out.arg) /\ Len(out.got) = Len(out.arg)
       /\ \A i \in 1..Len(out.arg) :
            /\ out.res[i] = <<HNum(i - 1, "integer"), out.got[i]>>
            /\ out.arg[i][1] # "gl" => out.res[i][2] = convert_js2lua_base(out.arg[i])

\* ------------------------------------------------ errno to symbol
\* DEF_ERR, in the order of the list, with the values <errno.h> gives the
\* names on Linux.
DEF_ERR ==
  << <<"EPERM", 1>>, <<"ENOENT", 2>>, <<"ESRCH", 3>>, <<"EINTR", 4>>, <<"EIO", 5>>,
     <<"ENXIO", 6>>, <<"E2BIG", 7>>, <<"ENOEXEC", 8>>, <<"EBADF", 9>>, <<"ECHILD", 10>>,
     <<"EAGAIN", 11>>, <<"ENOMEM", 12>>, <<"EACCES", 13>>, <<"EFAULT", 14>>,
     <<"ENOTBLK", 15>>, <<"EBUSY", 16>>, <<"EEXIST", 17>>, <<"EXDEV", 18>>,
     <<"ENODEV", 19>>, <<"ENOTDIR", 20>>, <<"EISDIR", 21>>, <<"EINVAL", 22>>,
     <<"ENFILE", 23>>, <<"EMFILE", 24>>, <<"ENOTTY", 25>>, <<"ETXTBSY", 26>>,
     <<"EFBIG", 27>>, <<"ENOSPC", 28>>, <<"ESPIPE", 29>>, <<"EROFS", 30>>,
     <<"EMLINK", 31>>, <<"EPIPE", 32>>, <<"EDOM", 33>>, <<"ENAMETOOLONG", 36>>,
     <<"ENOSYS", 38>>, <<"ELOOP", 40>>, <<"ETIMEDOUT", 110>>, <<"ERANGE", 34>>,
     <<"EOVERFLOW", 75>>, <<"ENOTSUP", 95>>, <<"ENOTEMPTY", 39>>, <<"ENOBUFS", 105>>,
     <<"EINPROGRESS", 115>>, <<"ECONNRESET", 104>>, <<"ECONNREFUSED", 111>>,
     <<"ECONNABORTED", 103>>, <<"EALREADY", 114>>, <<"EADDRNOTAVAIL", 99>>,
     <<"EADDRINUSE", 98>> >>
MaxErr == 120

\* A returned string: <<name>> is the literal of a case, <<"E", n>> is
\* errbuf after sprintf(errbuf, "E%d", n).
\* The body of the switch from the i-th case label on: SELECT_ERRSYM assigns
\* the literal to errsym and, where the macro has a break, leaves the
\* switch; without one control runs into the next case and at last into
\* default, which prints into errbuf and leaves errsym as it is.
RECURSIVE SELECT_ERRSYM(_, _, _, _)
SELECT_ERRSYM(i, errsym, err, break) ==
  IF i > Len(DEF_ERR) THEN (IF errsym = <<"errbuf">> THEN <<"E", err>> ELSE errsym)
  ELSE IF break THEN <<DEF_ERR[i][1]>>
  ELSE SELECT_ERRSYM(i + 1, <<DEF_ERR[i][1]>>, err, break)

\* switch (err): the matching case label, or default.
strerrno_switch(err, break) ==
  LET hit == {i \in 1..Len(DEF_ERR) : DEF_ERR[i][2] = err}
  IN IF hit = {} THEN SELECT_ERRSYM(Len(DEF_ERR) + 1, <<"errbuf">>, err, break)
     ELSE SELECT_ERRSYM(CHOOSE i \in hit : TRUE, <<"errbuf">>, err, break)

lv8_strerrno(err) == strerrno_switch(err, FALSE)
mini_strerrno_fs(err) == strerrno_switch(err, FALSE)
mini_strerrno(err) == strerrno_switch(err, TRUE)

StrerrnoHelpers == {"fs.cpp lv8_strerrno", "fs.cpp mini_strerrno", "part_005 mini_strerrno"}
strerrno_call(f, err) ==
  /\ out' = [NoOut EXCEPT !.op = "strerrno", !.arg = <<f, err>>,
               !.res = <<IF f = "fs.cpp lv8_strerrno" THEN lv8_strerrno(err)
                         ELSE IF f = "fs.cpp mini_strerrno" THEN mini_strerrno_fs(err)
                         ELSE mini_strerrno(err)>>]
  /\ UNCHANGED <<lvars, svars, tab, native, glob, raises>>

StrerrnoNext == \E f \in StrerrnoHelpers, err \in -1..MaxErr : strerrno_call(f, err)

\* A failed system call's errno is turned into its symbol.
StrerrnoSpec == Init /\ [][StrerrnoNext]_vars

\* C39: the helper returns the own name of every errno value DEF_ERR lists
\* and "E" followed by the number for every other value.
C39_OwnName ==
  out.op = "strerrno"
    => LET err == out.arg[2]
       IN /\ \A i \in 1..Len(DEF_ERR) : DEF_ERR[i][2] = err => out.res = <<<<DEF_ERR[i][1]>>>>
          /\ (\A i \in 1..Len(DEF_ERR) : DEF_ERR[i][2] # err) => out.res = <<<<"E", err>>>>

====
